---- MODULE Spec2Model ----
(***************************************************************************)
(* A model of the C extension of MySQL Connector/Python: the text-protocol *)
(* session (src/src/mysql_capi.c), the way errors are raised               *)
(* (src/src/exceptions.c) and the temporal codec                           *)
(* (src/src/mysql_capi_conversion.c).                                      *)
(*                                                                         *)
(* Three specifications share the module:                                  *)
(*   Spec       the MySQL session object: query, fetch_row, fetch_fields,  *)
(*              num_rows, free_result;                                     *)
(*   SpecCodec  the pure conversions between wire text and dates;          *)
(*   SpecStmt   a prepared statement: execute and fetch_row.               *)
(* Each one moves its own variables and leaves the others at their initial *)
(* value.                                                                  *)
(***************************************************************************)
EXTENDS Integers, Sequences, FiniteSets, TLC

VARIABLES
    result,           \* MySQL.result: 0 is NULL, otherwise the id of a MYSQL_RES
    fields,           \* MySQL.fields: the cached column descriptors, or NULL
    have_result_set,  \* MySQL.have_result_set
    field_count,      \* session.field_count, as the last command left it
    last_errno,       \* mysql_errno(&session)
    conn_status,      \* libmysql's MYSQL.status: "READY" or "USE_RESULT"
    res_obj,          \* the MYSQL_RES objects that are allocated and not freed
    self_raw,         \* MySQL.raw == Py_True
    self_raw_as_string, \* MySQL.raw_as_string == Py_True
    self_buffered,    \* MySQL.buffered == Py_True
    ret               \* the last call on the session and its outcome

sessionVars == <<result, fields, have_result_set, field_count, last_errno,
                 conn_status, res_obj, self_raw, self_raw_as_string, self_buffered,
                 ret>>

VARIABLES
    cpc,              \* where a conversion stands: "idle", then the text, then the value
    cls,              \* where the text came from and how it was built
    din,              \* the date or datetime the text was built from
    frac,             \* the fractional digits the text was built with
    text,             \* the wire text
    dout,             \* what mytopy_date / mytopy_datetime returned for text
    text2             \* dout written back as wire text

codecVars == <<cpc, cls, din, frac, text, dout, text2>>

VARIABLES
    stmt_def,              \* the prepared statement and the values it is executed with
    stmt_res,              \* MySQLPrepStmt.res: "NULL", "open", or "freed" (dangling)
    stmt_have_result_set,  \* MySQLPrepStmt.have_result_set
    stmt_column_count,     \* MySQLPrepStmt.column_count
    stmt_fields,           \* MySQLPrepStmt.fields
    stmt_errno,            \* mysql_stmt_errno(self->stmt)
    stmt_rows,             \* rows of the executed statement not fetched yet
    stmt_bind,             \* MySQLPrepStmt.bind: buffer and buffer_length of each column
    stmt_mem,              \* the statement object, its MYSQL_STMT, and what execute allocated
    stmt_ret               \* the last call on the statement and its outcome

stmtVars == <<stmt_def, stmt_res, stmt_have_result_set, stmt_column_count,
              stmt_fields, stmt_errno, stmt_rows, stmt_bind, stmt_mem, stmt_ret>>

VARIABLES
    gil,              \* the thread that holds the interpreter lock (0: nobody)
    thr               \* per thread: the function it is in and the step it is at

lockVars == <<gil, thr>>

vars == <<sessionVars, codecVars, stmtVars, lockVars>>

(***************************************************************************)
(* Bounds of the model.                                                    *)
(***************************************************************************)
MaxResults == 2     \* MYSQL_RES objects that can be allocated at once
MaxRows == 1        \* rows a result set holds
MaxMonth == 13      \* month numbers 0..MaxMonth in the DATE texts of the server
MaxDay == 32        \* day numbers 0..MaxDay in the DATE texts of the server
MaxFrac == 8        \* fractional digits in the DATETIME texts of the server
MaxParams == 2      \* parameter markers of a prepared statement
MaxLive == 2        \* result sets a prepared statement allocates buffers for
MaxCloses == 2      \* calls of mysql_stmt_close on one MYSQL_STMT
MaxGroups == 9      \* groups of digits in a text of the server

(***************************************************************************)
(* Client error codes of libmysql (errmsg.h) used by the session.          *)
(***************************************************************************)
CR_SERVER_GONE_ERROR == 2006

\* Errors a statement can fail with: ER_PARSE_ERROR, CR_SERVER_LOST.
QueryErrors == {1064, 2013}
\* CR_COMMANDS_OUT_OF_SYNC: a command sent while a mysql_use_result() set is unread.
OutOfSync == [code |-> 2014]
\* CR_SERVER_LOST: the error of a failed store/use or of a failed row pull.
ServerLost == [code |-> 2013]

\* mysql_sqlstate() and mysql_error() for an error code.
SqlStateOf(code) ==
    IF code = 1064 THEN "42000" ELSE IF code = 1062 THEN "23000" ELSE "HY000"
ErrorTextOf(code) ==
    CASE code = 1064 -> "You have an error in your SQL syntax"
      [] code = 1062 -> "Duplicate entry"
      [] code = 2036 -> "Using unsupported buffer type"
      [] code = 2013 -> "Lost connection to MySQL server during query"
      [] code = 2014 -> "Commands out of sync"
      [] OTHER -> "Unknown error"

(***************************************************************************)
(* Exceptions.  has is the set of attributes the C code set on the         *)
(* exception object; an attribute outside has was never assigned.          *)
(***************************************************************************)
NoExc == [type |-> "none", msg |-> "", errno |-> 0, sqlstate |-> "", has |-> {}]

\* raise_with_session(conn, NULL)
RaiseWithSession(err) ==
    IF err = 0
    THEN [type |-> "MySQLInterfaceError", msg |-> "MySQL server has gone away",
          errno |-> CR_SERVER_GONE_ERROR, sqlstate |-> "HY000",
          has |-> {"sqlstate", "errno", "msg"}]
    ELSE [type |-> "MySQLInterfaceError", msg |-> ErrorTextOf(err),
          errno |-> err, sqlstate |-> SqlStateOf(err),
          has |-> {"sqlstate", "errno", "msg"}]

\* raise_with_string(msg, NULL): errno -1, sqlstate None.
RaiseWithString(msg) ==
    [type |-> "MySQLInterfaceError", msg |-> msg, errno |-> -1,
     sqlstate |-> "None", has |-> {"sqlstate", "errno", "msg"}]

(***************************************************************************)
(* Text.  A C string is a sequence of one-character strings; reading the   *)
(* byte after the last one gives the terminating NUL that libmysql keeps   *)
(* after every cell of a text row.                                         *)
(***************************************************************************)
Digits == {"0", "1", "2", "3", "4", "5", "6", "7", "8", "9"}

DigitVal(c) ==
    CASE c = "0" -> 0 [] c = "1" -> 1 [] c = "2" -> 2 [] c = "3" -> 3
      [] c = "4" -> 4 [] c = "5" -> 5 [] c = "6" -> 6 [] c = "7" -> 7
      [] c = "8" -> 8 [] c = "9" -> 9

\* The character code of the characters the model's texts are made of.
Ord(c) ==
    CASE c \in Digits -> 48 + DigitVal(c)
      [] c = "NUL" -> 0 [] c = " " -> 32 [] c = "+" -> 43 [] c = "-" -> 45
      [] c = "." -> 46 [] c = "/" -> 47 [] c = ":" -> 58 [] c = "T" -> 84
      [] c = "a" -> 97 [] c = "b" -> 98 [] c = "x" -> 120

\* data[i] of a NUL-terminated string, i counted from 1.
CharAt(s, i) == IF i >= 1 /\ i <= Len(s) THEN s[i] ELSE "NUL"

\* isdigit() and isspace() of <ctype.h>
isdigit(c) == c \in Digits
isspace(c) == c = " "

\* The decimal digits of n >= 0, as sprintf("%d") writes them.
RECURSIVE DecimalText(_)
DecimalText(n) ==
    IF n < 10 THEN <<CHOOSE c \in Digits : DigitVal(c) = n>>
    ELSE DecimalText(n \div 10) \o <<CHOOSE c \in Digits : DigitVal(c) = n % 10>>

(***************************************************************************)
(* sscanf's %d directive, as mytopy_date uses it: skip white space, take   *)
(* an optional sign, then one or more digits.  The directive fails when no *)
(* digit follows.                                                          *)
(***************************************************************************)
RECURSIVE SkipSpace(_, _)
SkipSpace(s, i) == IF isspace(CharAt(s, i)) THEN SkipSpace(s, i + 1) ELSE i

RECURSIVE ScanDigits(_, _, _)
ScanDigits(s, i, acc) ==
    IF isdigit(CharAt(s, i))
    THEN ScanDigits(s, i + 1, acc * 10 + DigitVal(s[i]))
    ELSE [val |-> acc, next |-> i]

\* The directive once the white space is skipped (j) and the sign is passed (k).
ScanSigned(s, j, k) ==
    IF isdigit(CharAt(s, k))
    THEN [ok |-> TRUE, next |-> ScanDigits(s, k, 0).next,
          val |-> IF CharAt(s, j) = "-"
                  THEN 0 - ScanDigits(s, k, 0).val
                  ELSE ScanDigits(s, k, 0).val]
    ELSE [ok |-> FALSE, next |-> k, val |-> 0]

ScanFrom(s, j) == ScanSigned(s, j, IF CharAt(s, j) \in {"-", "+"} THEN j + 1 ELSE j)

ScanInt(s, i) == ScanFrom(s, SkipSpace(s, i))

\* sscanf(data, "%d-%d-%d", &year, &month, &day): n is the number of integers
\* assigned.  a, b, c are the three %d directives in turn.
Scanned(n, year, month, day) == [n |-> n, year |-> year, month |-> month, day |-> day]

Sscanf3c(s, a, b, c) ==
    IF ~c.ok THEN Scanned(2, a.val, b.val, 0) ELSE Scanned(3, a.val, b.val, c.val)

Sscanf3b(s, a, b) ==
    IF ~b.ok THEN Scanned(1, a.val, 0, 0)
    ELSE IF CharAt(s, b.next) # "-" THEN Scanned(2, a.val, b.val, 0)
    ELSE Sscanf3c(s, a, b, ScanInt(s, b.next + 1))

\* Sscanf3a with the first '-' of the format matching any character.
Sscanf3aAnySeparator(s, a) ==
    IF ~a.ok THEN Scanned(0, 0, 0, 0)
    ELSE Sscanf3b(s, a, ScanInt(s, a.next + 1))

Sscanf3a(s, a) ==
    IF ~a.ok THEN Scanned(0, 0, 0, 0)
    ELSE IF CharAt(s, a.next) # "-" THEN Scanned(1, a.val, 0, 0)
    ELSE Sscanf3b(s, a, ScanInt(s, a.next + 1))

Sscanf3(s) == Sscanf3a(s, ScanInt(s, 1))

(***************************************************************************)
(* Validity of dates and times.                                            *)
(***************************************************************************)
MINYEAR == 1
MAXYEAR == 9999

\* leap_year without the century rule.
leap_year_julian(year) == year % 4 = 0

leap_year(year) == (year % 4 = 0) /\ (year % 100 # 0 \/ year % 400 = 0)

nr_days_month(year, month) ==
    LET days == <<0, 31, 28, 31, 30, 31, 30, 31, 31, 30, 31, 30, 31>>
    IN  IF month = 2 /\ leap_year(year) THEN 29 ELSE days[month + 1]

is_valid_date(year, month, day) ==
    ~ (\/ (year < MINYEAR \/ year > MAXYEAR)
       \/ (month < 1 \/ month > 12)
       \/ (day < 1 \/ day > nr_days_month(year, month)))

is_valid_time(hours, mins, secs, usecs) ==
    ~ (\/ (hours < 0 \/ hours > 23)
       \/ (mins < 0 \/ mins > 59)
       \/ (secs < 0 \/ secs > 59)
       \/ (usecs < 0 \/ usecs > 999999))

(***************************************************************************)
(* What a conversion returns: a value, Py_None, or NULL with the error     *)
(* indicator set.                                                          *)
(***************************************************************************)
PyValue(kind, y, mo, d, h, mi, s, us) ==
    [kind |-> kind, year |-> y, month |-> mo, day |-> d,
     hour |-> h, minute |-> mi, second |-> s, usec |-> us]

PyNone == PyValue("None", 0, 0, 0, 0, 0, 0, 0)
PyError == PyValue("error", 0, 0, 0, 0, 0, 0, 0)
\* what a call returns after undefined behaviour
PyUndefined == PyValue("undefined", 0, 0, 0, 0, 0, 0, 0)
PyDate(y, m, d) == PyValue("date", y, m, d, 0, 0, 0, 0)

\* pytomy_date: PyBytes_FromFormat("%04d-%02d-%02d", ...).  PyBytes_FromFormat
\* skips the width of a directive, so each number is written as by "%d".
pytomy_date(obj) ==
    DecimalText(obj.year) \o <<"-">> \o DecimalText(obj.month) \o <<"-">>
        \o DecimalText(obj.day)

\* The body of mytopy_date once sscanf has returned m.
DateOfScan(m) ==
    IF m.n = 3
    THEN IF ~is_valid_date(m.year, m.month, m.day)
         THEN PyNone
         ELSE PyDate(m.year, m.month, m.day)
    ELSE PyError

\* mytopy_date with month and day taken in the other order.
mytopy_date_swapped(data) ==
    DateOfScan(Scanned(Sscanf3(data).n, Sscanf3(data).year, Sscanf3(data).day,
                       Sscanf3(data).month))

mytopy_date(data) == DateOfScan(Sscanf3(data))

(***************************************************************************)
(* mytopy_datetime.  data is walked with an index p counted from 1; end    *)
(* is the index of the byte after the last one (data + length).            *)
(***************************************************************************)
\* for (value= 0; data != end && isdigit(*data); data++) value= value * 10 + digit
RECURSIVE DigitRun(_, _, _, _)
DigitRun(s, end, p, value) ==
    IF p # end /\ isdigit(CharAt(s, p))
    THEN DigitRun(s, end, p + 1, value * 10 + DigitVal(CharAt(s, p)))
    ELSE [value |-> value, p |-> p]

\* The for (;;) loop over the groups.  part counts from 0; parts[part] is
\* sc.parts[part + 1], and a write of parts[7] is outside the array (oob);
\* last is the index of the last write, parts[last].
\* r is the digit run read at p.
RECURSIVE DatetimeGroups(_, _, _, _, _)
RECURSIVE DatetimeGroup(_, _, _, _, _)
DatetimeGroup(s, end, part, sc, r) ==
    IF \/ part + 1 = 8
       \/ (end - r.p) < 2
       \/ CharAt(s, r.p) \notin {"-", ":", " "}
       \/ ~isdigit(CharAt(s, r.p + 1))
    THEN [parts |-> sc.parts, oob |-> sc.oob, p |-> r.p, last |-> part]
    ELSE DatetimeGroups(s, end, r.p + 1, part + 1, sc)

StoreGroup(part, sc, value) ==
    IF part < 7 THEN [sc EXCEPT !.parts[part + 1] = value] ELSE [sc EXCEPT !.oob = TRUE]

DatetimeRun(s, end, part, sc, r) ==
    DatetimeGroup(s, end, part, StoreGroup(part, sc, r.value), r)

DatetimeGroups(s, end, p, part, sc) ==
    DatetimeRun(s, end, part, sc, DigitRun(s, end, p, 0))

\* while (data++ != end && isdigit(*data))
\*     if (field_length-- > 0) value= (value * 10) + digit
\* p is data before the test; the digit read is the one at p + 1.
RECURSIVE FractionDigits(_, _, _, _, _)
FractionDigits(s, end, p, value, field_length) ==
    IF p # end /\ isdigit(CharAt(s, p + 1))
    THEN FractionDigits(s, end, p + 1,
                        IF field_length > 0
                        THEN value * 10 + DigitVal(CharAt(s, p + 1))
                        ELSE value,
                        field_length - 1)
    ELSE [value |-> value, field_length |-> field_length]

DatetimeScan(data, length) ==
    DatetimeGroups(data, length + 1, 1, 0,
                   [parts |-> <<0, 0, 0, 0, 0, 0, 0>>, oob |-> FALSE])

\* The end of mytopy_datetime: the validity checks and the value.
DatetimeOfParts(parts) ==
    IF ~is_valid_date(parts[1], parts[2], parts[3]) THEN PyNone
    ELSE IF ~is_valid_time(parts[4], parts[5], parts[6], parts[7]) THEN PyNone
    ELSE PyValue("datetime", parts[1], parts[2], parts[3],
                 parts[4], parts[5], parts[6], parts[7])

\* The fractional part, read when data stands on a '.' with a byte after it:
\* int field_length= 6; data++; value= *data - '0'; while (...) ...; parts[6]= value
DatetimeFraction(data, end, g) ==
    IF g.p # end /\ end - g.p >= 2 /\ CharAt(data, g.p) = "."
    THEN [g.parts EXCEPT ![7] =
              FractionDigits(data, end, g.p + 1,
                             Ord(CharAt(data, g.p + 1)) - Ord("0"), 6).value]
    ELSE g.parts

mytopy_datetime(data, length) ==
    DatetimeOfParts(DatetimeFraction(data, length + 1, DatetimeScan(data, length)))

(***************************************************************************)
(* mytopy_time.  C's / and % truncate toward zero; PyDelta_FromDSU          *)
(* normalises so that 0 <= seconds < 86400 and 0 <= microseconds < 10^6.   *)
(***************************************************************************)
CDiv(a, b) == IF a >= 0 THEN a \div b ELSE 0 - ((0 - a) \div b)
CMod(a, b) == a - b * CDiv(a, b)

\* PyDelta_FromDSU(days, seconds, useconds)
PyDelta(days, seconds, useconds) ==
    PyValue("timedelta", 0, 0,
            days + ((seconds + (useconds \div 1000000)) \div 86400),
            0, 0,
            (seconds + (useconds \div 1000000)) % 86400,
            useconds % 1000000)

\* The for (;;) loop of mytopy_time over the groups.  part counts from 0;
\* parts[part] is parts[part + 1] here.  r is the digit run read at p; last
\* is the index of the last write, parts[last].
RECURSIVE TimeGroups(_, _, _, _, _)
TimeGroup(s, end, part, parts, r) ==
    IF \/ part + 1 = 4
       \/ (end - r.p) < 2
       \/ CharAt(s, r.p) # ":"
       \/ ~isdigit(CharAt(s, r.p + 1))
    THEN [parts |-> parts, p |-> r.p, last |-> part]
    ELSE TimeGroups(s, end, r.p + 1, part + 1, parts)

TimeRun(s, end, part, parts, r) ==
    TimeGroup(s, end, part, [parts EXCEPT ![part + 1] = r.value], r)

TimeGroups(s, end, p, part, parts) ==
    TimeRun(s, end, part, parts, DigitRun(s, end, p, 0))

\* if (field_length >= 0) while (field_length-- > 0) value*= 10
RECURSIVE PadFraction(_, _)
PadFraction(value, field_length) ==
    IF field_length > 0 THEN PadFraction(value * 10, field_length - 1) ELSE value

\* The fraction taken as a count of microseconds, with no padding.
TimeUnpadded(f) == f.value

TimePadded(f) == PadFraction(f.value, f.field_length)

\* The fractional part of mytopy_time: int field_length= 5; data++;
\* value= *data - '0'; while (...) ...; padding; parts[3]= value
TimeFraction(data, end, g) ==
    IF g.p # end /\ end - g.p >= 2 /\ CharAt(data, g.p) = "."
    THEN [g.parts EXCEPT ![4] =
              TimePadded(FractionDigits(data, end, g.p + 1,
                                        Ord(CharAt(data, g.p + 1)) - Ord("0"), 5))]
    ELSE g.parts

\* The end of mytopy_time: the sign, days, hours, seconds and the timedelta.
\* sign is -1 when the text starts with '-', 1 otherwise.
TimeOfParts(parts, sign) ==
    PyDelta(CDiv(sign * parts[1], 24),
            CMod(sign * parts[1], 24) * 3600 + sign * parts[2] * 60 + sign * parts[3],
            sign * parts[4])

\* The body of mytopy_time from the first byte after the sign (at index from).
TimeFrom(data, end, from, sign) ==
    TimeOfParts(TimeFraction(data, end, TimeGroups(data, end, from, 0, <<0, 0, 0, 0>>)),
                sign)

mytopy_time(data, length) ==
    IF CharAt(data, 1) = "-"
    THEN TimeFrom(data, length + 1, 2, -1)
    ELSE TimeFrom(data, length + 1, 1, 1)

(***************************************************************************)
(* Strings.  A byte is written by its name ("a" for 0x61, "C3", "A9"), a   *)
(* code point likewise ("a", "U+00C3", "U+00A9", "U+00E9").                *)
(***************************************************************************)
\* python_characterset_name(mysql_name); "NULL" is the null pointer
python_characterset_name(mysql_name) ==
    IF mysql_name = "NULL" THEN "latin1"
    ELSE IF (mysql_name = "utf8mb4") # (mysql_name = "utf8mb3") THEN "utf8"
    ELSE mysql_name

PyStr(points) == [kind |-> "str", data |-> points]
PyBytes(bytes) == [kind |-> "bytes", data |-> bytes]
\* NULL with the exception exc set
PyRaised(exc) == [kind |-> "error", data |-> <<exc>>]

Latin1Point(b) == CASE b = "C3" -> "U+00C3" [] b = "A9" -> "U+00A9" [] OTHER -> b

\* The UTF-8 decoder: 0xC3 leads a two-byte sequence, 0xA9 continues one.
RECURSIVE Utf8Decode(_, _, _)
Utf8Decode(data, i, acc) ==
    IF i > Len(data) THEN PyStr(acc)
    ELSE IF data[i] = "C3" /\ CharAt(data, i + 1) = "A9"
    THEN Utf8Decode(data, i + 2, Append(acc, "U+00E9"))
    ELSE IF data[i] \in {"C3", "A9"} THEN PyRaised("UnicodeDecodeError")
    ELSE Utf8Decode(data, i + 1, Append(acc, data[i]))

\* PyUnicode_Decode(data, length, charset, NULL)
PyUnicode_Decode(data, charset) ==
    CASE charset = "utf8" -> Utf8Decode(data, 1, <<>>)
      [] charset = "latin1" -> PyStr([i \in 1..Len(data) |-> Latin1Point(data[i])])
      [] OTHER -> PyRaised("LookupError")

\* mytopy_string with the test of use_unicode left out.
mytopy_string_always_unicode(data, flags, charset, use_unicode) ==
    IF charset = "NULL" THEN PyRaised("none")
    ELSE IF ~("BINARY" \in flags) /\ charset # "binary"
    THEN PyUnicode_Decode(data, charset)
    ELSE PyBytes(data)

\* mytopy_string(data, length, flags, charset, use_unicode); data is never
\* the null pointer here, a null cell does not come this far.
mytopy_string(data, flags, charset, use_unicode) ==
    IF charset = "NULL" THEN PyRaised("none")
    ELSE IF ~("BINARY" \in flags) /\ use_unicode /\ charset # "binary"
    THEN PyUnicode_Decode(data, charset)
    ELSE PyBytes(data)

(***************************************************************************)
(* A cell of a column with SET_FLAG, in MySQL_fetch_row and in             *)
(* MySQLPrepStmt_fetch_row.  A set cell is the set built and the exception *)
(* left pending when it is stored in the row ("none": no exception).       *)
(***************************************************************************)
PySet(members, pending) == [kind |-> "set", data |-> members, pending |-> pending]

\* The pieces of s between the separators sep, empty pieces included; cur
\* is the piece being read.
RECURSIVE Pieces(_, _, _, _)
Pieces(s, sep, i, cur) ==
    IF i > Len(s) THEN <<cur>>
    ELSE IF s[i] = sep THEN <<cur>> \o Pieces(s, sep, i + 1, <<>>)
    ELSE Pieces(s, sep, i + 1, Append(cur, s[i]))

\* PySet_New(PyUnicode_Split(value, PyUnicode_FromString(","), -1)): on an
\* object that is no str PyUnicode_Split sets TypeError and returns NULL,
\* and PySet_New(NULL) is a new empty set.
SplitToSet(value) ==
    IF value.kind = "str"
    THEN PySet({Pieces(value.data, ",", 1, <<>>)[k] :
                    k \in 1..Len(Pieces(value.data, ",", 1, <<>>))}, "none")
    ELSE PySet({}, "TypeError")

\* The SET branch of MySQL_fetch_row, value being what mytopy_string returned.
TextSetOf(raw, value) ==
    IF value.kind = "error" THEN value
    ELSE IF raw = <<>> THEN PySet({}, "none")
    ELSE SplitToSet(value)

TextSetCell(raw, flags, charset, use_unicode) ==
    TextSetOf(raw, mytopy_string(raw, flags, charset, use_unicode))

\* The tokens of strtok_r(buffer, ",", &rest): the pieces that are not empty.
StrtokTokens(raw) ==
    {Pieces(raw, ",", 1, <<>>)[k] : k \in 1..Len(Pieces(raw, ",", 1, <<>>))} \ {<<>>}

\* The SET branch of MySQLPrepStmt_fetch_row: PyUnicode_FromString(token)
\* decodes UTF-8; PySet_Add(set, us) and Py_DECREF(us) with us NULL read
\* through the null pointer.
PrepSetCell(raw) ==
    IF \E t \in StrtokTokens(raw) : Utf8Decode(t, 1, <<>>).kind = "error"
    THEN [kind |-> "crash", data |-> {}, pending |-> "none"]
    ELSE PySet({Utf8Decode(t, 1, <<>>).data : t \in StrtokTokens(raw)}, "none")

(***************************************************************************)
(* The server of the model: the statements it knows and the columns of     *)
(* their result sets.  A column is its wire type and its flags.            *)
(***************************************************************************)
\* The server gives the character set binary (63) to the columns it flags
\* BINARY, and utf8 (33) to the others.
Col(type, flags) ==
    [type |-> type, flags |-> flags,
     charsetnr |-> IF "BINARY" \in flags THEN 63 ELSE 33]

Statements == {"UPDATE", "SELECT id, born", "SELECT price, name", "SELECT note",
               "SELECT seen, doc", "SELECT ratio, tags"}

Columns(stmt) ==
    CASE stmt = "UPDATE" -> <<>>
      [] stmt = "SELECT id, born" -> <<Col("LONG", {}), Col("DATE", {})>>
      [] stmt = "SELECT price, name" -> <<Col("NEWDECIMAL", {}), Col("VAR_STRING", {})>>
      [] stmt = "SELECT note" -> <<Col("BLOB", {"BLOB"})>>
      [] stmt = "SELECT seen, doc" -> <<Col("DATETIME", {}), Col("JSON", {})>>
      [] stmt = "SELECT ratio, tags" -> <<Col("DOUBLE", {}), Col("STRING", {"SET"})>>

\* A cell of a pulled row: a null pointer, or bytes that the codec of the
\* column converts ("good"), parses but finds out of range ("invalid"), or
\* rejects ("bad").
RawCells == {"NULL", "good", "invalid", "bad"}
RawRows(n) == [1..n -> RawCells]

DateCellText(raw) ==
    CASE raw = "good" -> <<"2", "0", "2", "4", "-", "0", "2", "-", "2", "9">>
      [] raw = "invalid" -> <<"2", "0", "2", "3", "-", "0", "2", "-", "2", "9">>
      [] raw = "bad" -> <<"2", "0", "2", "4", "/", "0", "2", "/", "2", "9">>

DatetimeCellText(raw) ==
    DateCellText(raw) \o <<" ", "1", "0", ":", "3", "0", ":", "0", "0">>

\* The bytes of a cell of any other column, and the length the server
\* records for a cell of the column desc.
CellText(raw) ==
    CASE raw = "good" -> <<"1", "2">>
      [] raw = "invalid" -> <<"0">>
      [] raw = "bad" -> <<"x", "1", "2">>

WireLength(desc, raw) ==
    CASE desc.type = "DATE" -> Len(DateCellText(raw))
      [] desc.type \in {"DATETIME", "TIMESTAMP"} -> Len(DatetimeCellText(raw))
      [] OTHER -> Len(CellText(raw))

(***************************************************************************)
(* The MySQL session object.                                               *)
(***************************************************************************)
NullFields == [isnull |-> TRUE, cols |-> <<>>]

\* fetch_fields(result, num_fields, cs, use_unicode): one descriptor per column
fetch_fields(res) == [isnull |-> FALSE, cols |-> Columns(res.stmt)]

Returned(op, kind, hadResult) ==
    [op |-> op, kind |-> kind, exc |-> NoExc, row |-> <<>>, desc |-> NullFields,
     count |-> 0, hadResult |-> hadResult, pull |-> "n/a", pending |-> 0,
     errIndicator |-> FALSE, failedCell |-> FALSE, cells |-> <<>>, built |-> {}]

Raised(op, exc, hadResult) ==
    [Returned(op, "error", hadResult) EXCEPT !.exc = exc, !.errIndicator = TRUE]

FreeIds == (1..MaxResults) \ DOMAIN res_obj

\* The address mysql_store_result / mysql_use_result returns: an id not in use.
NewId == CHOOSE i \in FreeIds : \A j \in FreeIds : i <= j

Drop(f, id) == [i \in (DOMAIN f) \ {id} |-> f[i]]

\* A MYSQL_RES that self->result no longer points to and that was not freed:
\* it stays allocated, and nothing reads its rows any more.
LostResult == [stmt |-> "lost", total |-> 0, fetched |-> 0, use |-> FALSE]

\* The heap once self->result is overwritten without mysql_free_result.
Overwritten(f, id) == IF id = 0 THEN f ELSE [f EXCEPT ![id] = LostResult]

\* An exception of the Python runtime or of a codec: no attribute is set on it.
PyExc(type, msg) == [type |-> type, msg |-> msg, errno |-> 0, sqlstate |-> "", has |-> {}]

\* The conversion of one non-null cell in MySQL_fetch_row, by the type and
\* flags of its descriptor.  item is what is stored in the tuple ("unset": the
\* slot is left NULL), exc the exception the conversion set (NoExc: none),
\* abort whether the code jumps to the error label.
Cell(item, exc, abort) == [item |-> item, exc |-> exc, abort |-> abort]

DecodeError == PyExc("UnicodeDecodeError", "codec can't decode bytes")

\* PyTuple_SET_ITEM(result_row, i, mytopy_date(row[i])): v is what mytopy_date returns
DateCell(v) ==
    IF v.kind = "error"
    THEN Cell("unset",
              PyExc("ValueError", "Received incorrect DATE value from MySQL server"),
              FALSE)
    ELSE Cell(v.kind, NoExc, FALSE)

ConvertCell(desc, raw) ==
    CASE desc.type \in {"TINY", "SHORT", "LONG", "LONGLONG", "INT24", "YEAR"} ->
            \* PyLong_FromString(row[i], NULL, 0 or 10)
            IF raw = "bad"
            THEN Cell("unset", PyExc("ValueError", "invalid literal for int()"), FALSE)
            ELSE Cell("int", NoExc, FALSE)
      [] desc.type \in {"DATETIME", "TIMESTAMP"} ->
            Cell(mytopy_datetime(DatetimeCellText(raw), Len(DatetimeCellText(raw))).kind,
                 NoExc, FALSE)
      [] desc.type = "DATE" ->
            DateCell(mytopy_date(DateCellText(raw)))
      [] desc.type = "TIME" ->
            \* mytopy_time returns a timedelta for every text
            Cell("timedelta", NoExc, FALSE)
      [] desc.type \in {"VARCHAR", "STRING", "ENUM", "VAR_STRING"} ->
            \* mytopy_string; if (!value) goto error
            IF raw = "bad" THEN Cell("unset", DecodeError, TRUE)
            ELSE IF "SET" \in desc.flags THEN Cell("set", NoExc, FALSE)
            ELSE Cell("str", NoExc, FALSE)
      [] desc.type \in {"NEWDECIMAL", "DECIMAL"} ->
            \* PyObject_Call(decimal, dec_args, NULL)
            IF raw = "bad"
            THEN Cell("unset", PyExc("InvalidOperation", "ConversionSyntax"), FALSE)
            ELSE Cell("Decimal", NoExc, FALSE)
      [] desc.type \in {"FLOAT", "DOUBLE"} ->
            \* PyOS_string_to_double sets ValueError and leaves end at the text
            IF raw = "bad"
            THEN Cell("None", PyExc("ValueError", "could not convert string to float"),
                      FALSE)
            ELSE Cell("float", NoExc, FALSE)
      [] desc.type = "BIT" -> Cell("int", NoExc, FALSE)
      [] desc.type = "BLOB" ->
            IF "BLOB" \in desc.flags /\ "BINARY" \in desc.flags
            THEN Cell("bytes", NoExc, FALSE)
            ELSE IF raw = "bad" THEN Cell("unset", DecodeError, FALSE)
            ELSE Cell("str", NoExc, FALSE)
      [] desc.type = "GEOMETRY" -> Cell("bytearray", NoExc, FALSE)
      [] OTHER ->
            \* mytopy_string, stored as it is returned
            IF raw = "bad" THEN Cell("unset", DecodeError, FALSE)
            ELSE Cell("str", NoExc, FALSE)

\* The for loop of MySQL_fetch_row over the cells of the pulled row.  descs is
\* self->fields, raw the pulled row (num_fields cells).  acc is the outcome so
\* far; failedCell says that a conversion failed and left its slot unset.
RECURSIVE ConvertRow(_, _, _, _, _)

\* The outcome so far, once cell c is converted.
NoteCell(acc, c) ==
    IF c.exc = NoExc THEN acc
    ELSE [acc EXCEPT !.errIndicator = TRUE, !.exc = c.exc,
                     !.failedCell = @ \/ c.item = "unset"]

\* built: the cells an object was built from, by a codec or as raw bytes.
StoreCell(descs, raw, i, row, acc, c) ==
    IF c.abort
    THEN \* error: Py_DECREF(result_row); return NULL
         [NoteCell(acc, c) EXCEPT !.kind = "error", !.built = @ \cup {i}]
    ELSE ConvertRow(descs, raw, i + 1, Append(row, c.item),
                    [NoteCell(acc, c) EXCEPT !.built = @ \cup {i}])

\* if (self->raw == Py_True): PyUnicode_FromStringAndSize or
\* PyByteArray_FromStringAndSize(row[i], field_lengths[i])
RawCell(raw) ==
    IF ~self_raw_as_string THEN Cell("bytearray", NoExc, FALSE)
    ELSE IF raw = "bad" THEN Cell("unset", DecodeError, FALSE)
    ELSE Cell("str", NoExc, FALSE)

\* The loop with the test of self->raw ahead of the test of row[i].
ConvertRowRawFirst(descs, raw, i, row, acc) ==
    IF i > Len(raw)
    THEN [acc EXCEPT !.kind = "row", !.row = row]
    ELSE IF self_raw
    THEN StoreCell(descs, raw, i, row, acc, RawCell(raw[i]))
    ELSE IF raw[i] = "NULL"
    THEN ConvertRow(descs, raw, i + 1, Append(row, "None"), acc)
    ELSE IF i > Len(descs)
    THEN [acc EXCEPT !.kind = "None", !.errIndicator = TRUE,
                     !.exc = PyExc("IndexError", "list index out of range")]
    ELSE StoreCell(descs, raw, i, row, acc, ConvertCell(descs[i], raw[i]))

ConvertRow(descs, raw, i, row, acc) ==
    IF i > Len(raw)
    THEN [acc EXCEPT !.kind = "row", !.row = row]
    ELSE IF raw[i] = "NULL"
    THEN ConvertRow(descs, raw, i + 1, Append(row, "None"), acc)
    ELSE IF self_raw
    THEN StoreCell(descs, raw, i, row, acc, RawCell(raw[i]))
    ELSE IF i > Len(descs)
    THEN \* PyList_GetItem(self->fields, i) is NULL: Py_RETURN_NONE
         [acc EXCEPT !.kind = "None", !.errIndicator = TRUE,
                     !.exc = PyExc("IndexError", "list index out of range")]
    ELSE StoreCell(descs, raw, i, row, acc, ConvertCell(descs[i], raw[i]))

(***************************************************************************)
(* The operations of the session.  The outcome of each native call is an   *)
(* input of the action.                                                    *)
(***************************************************************************)
SessionInit ==
    /\ result = 0
    /\ fields = NullFields
    /\ have_result_set = FALSE
    /\ field_count = 0
    /\ last_errno = 0
    /\ conn_status = "READY"
    /\ res_obj = [i \in {} |-> 0]
    /\ self_raw = FALSE
    /\ self_raw_as_string = FALSE
    /\ self_buffered = FALSE
    /\ ret = Returned("init", "None", FALSE)

\* MySQL_handle_result after a command that left fc columns and error code 0.
\* stored: mysql_store_result / mysql_use_result gave a result; a command
\* without columns gives NULL and no error.
MySQL_handle_result(op, stmt, fc, use, rows, stored) ==
    IF fc # 0 /\ ~stored
    THEN \* self->result == NULL && mysql_errno(&self->session)
         /\ result' = 0
         /\ res_obj' = Overwritten(res_obj, result)
         /\ last_errno' = ServerLost.code
         /\ ret' = Raised(op, RaiseWithSession(ServerLost.code), result # 0)
         /\ UNCHANGED <<fields, have_result_set, conn_status>>
    ELSE IF fc = 0
    THEN /\ result' = 0
         /\ res_obj' = Overwritten(res_obj, result)
         /\ last_errno' = 0
         /\ have_result_set' = FALSE
         /\ ret' = Returned(op, "True", result # 0)
         /\ UNCHANGED <<fields, conn_status>>
    ELSE /\ FreeIds # {}
         /\ result' = NewId
         /\ res_obj' = Overwritten(res_obj, result) @@
                (NewId :> [stmt |-> stmt, total |-> rows, fetched |-> 0, use |-> use])
         /\ last_errno' = 0
         /\ conn_status' = IF use THEN "USE_RESULT" ELSE "READY"
         /\ have_result_set' = TRUE
         /\ ret' = Returned(op, "True", result # 0)
         /\ UNCHANGED fields

\* QueryOutcome without MySQL_reset_result for a statement with no columns.
QueryOutcomeKeep(stmt, buffered, rows, stored, res, fc) ==
    IF res # 0
    THEN /\ last_errno' = res
         /\ ret' = Raised("query", RaiseWithSession(res), result # 0)
         /\ UNCHANGED <<result, fields, have_result_set, field_count,
                        conn_status, res_obj>>
    ELSE IF fc = 0
    THEN /\ field_count' = 0
         /\ last_errno' = 0
         /\ ret' = Returned("query", "True", result # 0)
         /\ UNCHANGED <<result, fields, have_result_set, conn_status, res_obj>>
    ELSE /\ field_count' = fc
         /\ MySQL_handle_result("query", stmt, fc, ~buffered, rows, stored)

\* MySQL_query after mysql_real_query returned: res is its error code (0: none),
\* fc the column count the server reported.
QueryOutcome(stmt, buffered, rows, stored, res, fc) ==
    IF res # 0
    THEN /\ last_errno' = res
         /\ ret' = Raised("query", RaiseWithSession(res), result # 0)
         /\ UNCHANGED <<result, fields, have_result_set, field_count,
                        conn_status, res_obj>>
    ELSE IF fc = 0
    THEN \* MySQL_reset_result(self)
         /\ result' = 0
         /\ res_obj' = Overwritten(res_obj, result)
         /\ fields' = NullFields
         /\ have_result_set' = FALSE
         /\ field_count' = 0
         /\ last_errno' = 0
         /\ ret' = Returned("query", "True", result # 0)
         /\ UNCHANGED conn_status
    ELSE /\ field_count' = fc
         /\ MySQL_handle_result("query", stmt, fc, ~buffered, rows, stored)

\* The raw and raw_as_string arguments of MySQL_query, which its callers
\* always pass.
RawModes == {[raw |-> FALSE, raw_as_string |-> FALSE],
             [raw |-> TRUE, raw_as_string |-> FALSE],
             [raw |-> TRUE, raw_as_string |-> TRUE]}

\* MySQL_query(statement, buffered, raw, raw_as_string): mysql_real_query,
\* then the result.
\* The server refuses a statement with one of QueryErrors; the library
\* refuses every statement with OutOfSync while rows of a streamed result are
\* unread.
MySQL_query ==
    /\ \/ /\ conn_status = "USE_RESULT"
          /\ QueryOutcome("UPDATE", TRUE, 0, FALSE, OutOfSync.code, 0)
          /\ UNCHANGED <<self_raw, self_raw_as_string, self_buffered>>
       \/ /\ conn_status # "USE_RESULT"
          /\ \E q \in QueryErrors : QueryOutcome("UPDATE", TRUE, 0, FALSE, q, 0)
          /\ UNCHANGED <<self_raw, self_raw_as_string, self_buffered>>
       \/ /\ conn_status # "USE_RESULT"
          /\ QueryOutcome("UPDATE", TRUE, 0, FALSE, 0, 0)
          /\ UNCHANGED <<self_raw, self_raw_as_string, self_buffered>>
       \/ /\ conn_status # "USE_RESULT"
          /\ \E stmt \in Statements \ {"UPDATE"}, buffered \in BOOLEAN :
                \* self->buffered = buffered
                /\ self_buffered' = buffered
                /\ \/ QueryOutcome(stmt, buffered, 0, FALSE, 0, Len(Columns(stmt)))
                   \/ \E rows \in 0..MaxRows :
                         QueryOutcome(stmt, buffered, rows, TRUE, 0,
                                      Len(Columns(stmt)))
          \* self->raw_as_string = raw_as_string; self->raw = raw
          /\ \E m \in RawModes :
                /\ self_raw' = m.raw
                /\ self_raw_as_string' = m.raw_as_string
    /\ UNCHANGED <<codecVars, stmtVars, lockVars>>

\* MySQL_free_result: mysql_free_result(self->result), then MySQL_reset_result.
MySQL_free_result ==
    /\ IF result # 0
       THEN /\ res_obj' = Drop(res_obj, result)
            /\ conn_status' = IF res_obj[result].use THEN "READY" ELSE conn_status
       ELSE UNCHANGED <<res_obj, conn_status>>
    /\ result' = 0
    /\ fields' = NullFields
    /\ have_result_set' = FALSE
    /\ ret' = Returned("free_result", "None", result # 0)
    /\ UNCHANGED <<field_count, last_errno, self_raw, self_raw_as_string,
                   self_buffered, codecVars, stmtVars, lockVars>>

\* MySQL_consume_result: mysql_fetch_row until it returns NULL, then
\* MySQL_free_result.  The loop over the unread rows of a streamed result ends
\* at the last row or when the connection is lost; its error is not looked at.
MySQL_consume_result ==
    /\ IF result # 0
       THEN /\ res_obj' = Drop(res_obj, result)
            /\ conn_status' = IF res_obj[result].use THEN "READY" ELSE conn_status
            /\ IF res_obj[result].use /\ res_obj[result].fetched # res_obj[result].total
               THEN last_errno' \in {last_errno, ServerLost.code}
               ELSE UNCHANGED last_errno
       ELSE UNCHANGED <<res_obj, conn_status, last_errno>>
    /\ result' = 0
    /\ fields' = NullFields
    /\ have_result_set' = FALSE
    /\ ret' = Returned("consume_result", "None", result # 0)
    /\ UNCHANGED <<field_count, self_raw, self_raw_as_string, self_buffered,
                   codecVars, stmtVars, lockVars>>

\* The MYSQL_RES objects left once MySQL_free_result has run.
AfterFree == IF result # 0 THEN Drop(res_obj, result) ELSE res_obj

\* MySQL_next_result when mysql_more_results is not 0: MySQL_free_result,
\* mysql_next_result with error code res (0: none) for a result of fc columns,
\* MySQL_free_result again, then MySQL_handle_result with self->buffered.
\* MySQL_free_result leaves libmysql's status at "READY".
NextResultOutcome(stmt, rows, stored, res, fc) ==
    /\ fields' = NullFields
    /\ IF res # 0
       THEN /\ result' = 0
            /\ res_obj' = AfterFree
            /\ have_result_set' = FALSE
            /\ conn_status' = "READY"
            /\ last_errno' = res
            /\ ret' = Raised("next_result", RaiseWithSession(res), result # 0)
            /\ UNCHANGED field_count
       ELSE IF fc # 0 /\ ~stored
       THEN \* self->result == NULL && mysql_errno(&self->session)
            /\ result' = 0
            /\ res_obj' = AfterFree
            /\ have_result_set' = FALSE
            /\ conn_status' = "READY"
            /\ field_count' = fc
            /\ last_errno' = ServerLost.code
            /\ ret' = Raised("next_result", RaiseWithSession(ServerLost.code),
                             result # 0)
       ELSE IF fc = 0
       THEN /\ result' = 0
            /\ res_obj' = AfterFree
            /\ have_result_set' = FALSE
            /\ conn_status' = "READY"
            /\ field_count' = 0
            /\ last_errno' = 0
            /\ ret' = Returned("next_result", "True", result # 0)
       ELSE /\ (1..MaxResults) \ DOMAIN AfterFree # {}
            /\ result' = CHOOSE i \in (1..MaxResults) \ DOMAIN AfterFree :
                            \A j \in (1..MaxResults) \ DOMAIN AfterFree : i <= j
            /\ res_obj' = AfterFree @@
                   (result' :> [stmt |-> stmt, total |-> rows, fetched |-> 0,
                                use |-> ~self_buffered])
            /\ have_result_set' = TRUE
            /\ conn_status' = IF self_buffered THEN "READY" ELSE "USE_RESULT"
            /\ field_count' = fc
            /\ last_errno' = 0
            /\ ret' = Returned("next_result", "True", result # 0)

\* MySQL_next_result.  Whether there is another result for the command is
\* the server's answer, which mysql_more_results reads.
MySQL_next_result ==
    /\ \/ \* mysql_more_results(&self->session) == 0
          /\ ret' = Returned("next_result", "False", result # 0)
          /\ UNCHANGED <<result, fields, have_result_set, field_count, last_errno,
                         conn_status, res_obj>>
       \/ \E q \in QueryErrors : NextResultOutcome("UPDATE", 0, FALSE, q, 0)
       \/ NextResultOutcome("UPDATE", 0, FALSE, 0, 0)
       \/ \E stmt \in Statements \ {"UPDATE"} :
             \/ NextResultOutcome(stmt, 0, FALSE, 0, Len(Columns(stmt)))
             \/ \E rows \in 0..MaxRows :
                   NextResultOutcome(stmt, rows, TRUE, 0, Len(Columns(stmt)))
    /\ UNCHANGED <<self_raw, self_raw_as_string, self_buffered, codecVars, stmtVars, lockVars>>

\* MySQL_fetch_fields
MySQL_fetch_fields ==
    /\ IF result = 0
       THEN ret' = Raised("fetch_fields", RaiseWithString("No result"), FALSE)
       ELSE IF ~fields.isnull
       THEN ret' = [Returned("fetch_fields", "fields", TRUE) EXCEPT !.desc = fields]
       ELSE ret' = [Returned("fetch_fields", "fields", TRUE)
                       EXCEPT !.desc = fetch_fields(res_obj[result])]
    /\ UNCHANGED <<result, fields, have_result_set, field_count, last_errno,
                   conn_status, res_obj, self_raw, self_raw_as_string,
                   self_buffered, codecVars, stmtVars, lockVars>>

\* MySQL_num_rows counting no rows when there is no result.
MySQL_num_rows_lenient ==
    /\ IF result = 0
       THEN ret' = Returned("num_rows", "count", FALSE)
       ELSE ret' = [Returned("num_rows", "count", TRUE)
                       EXCEPT !.count = IF res_obj[result].use
                                        THEN res_obj[result].fetched
                                        ELSE res_obj[result].total]
    /\ UNCHANGED <<result, fields, have_result_set, field_count, last_errno,
                   conn_status, res_obj, self_raw, self_raw_as_string,
                   self_buffered, codecVars, stmtVars, lockVars>>

\* MySQL_num_rows
MySQL_num_rows ==
    /\ IF result = 0
       THEN ret' = Raised("num_rows",
                          RaiseWithString("Statement did not return result set"), FALSE)
       ELSE ret' = [Returned("num_rows", "count", TRUE)
                       EXCEPT !.count = IF res_obj[result].use
                                        THEN res_obj[result].fetched
                                        ELSE res_obj[result].total]
    /\ UNCHANGED <<result, fields, have_result_set, field_count, last_errno,
                   conn_status, res_obj, self_raw, self_raw_as_string,
                   self_buffered, codecVars, stmtVars, lockVars>>

\* FetchRowNull that never looks at mysql_errno.
FetchRowNullQuiet(r, errno1) ==
    /\ res_obj' = [res_obj EXCEPT ![result].total = r.fetched]
    /\ conn_status' = IF r.use THEN "READY" ELSE conn_status
    /\ last_errno' = errno1
    /\ ret' = [Returned("fetch_row", "None", TRUE)
                  EXCEPT !.pull = "null", !.pending = errno1]
    /\ UNCHANGED <<result, fields, have_result_set, field_count>>

\* MySQL_fetch_row when mysql_fetch_row returned NULL; errno1 is mysql_errno.
FetchRowNull(r, errno1) ==
    /\ res_obj' = [res_obj EXCEPT ![result].total = r.fetched]
    /\ conn_status' = IF r.use THEN "READY" ELSE conn_status
    /\ last_errno' = errno1
    /\ ret' = IF errno1 # 0
              THEN [Raised("fetch_row", RaiseWithSession(errno1), TRUE)
                       EXCEPT !.pull = "null", !.pending = errno1]
              ELSE [Returned("fetch_row", "None", TRUE)
                       EXCEPT !.pull = "null", !.pending = errno1]
    /\ UNCHANGED <<result, fields, have_result_set, field_count>>

\* MySQL_fetch_row when mysql_fetch_row returned the row raw; descs is
\* self->fields once it is filled in.
FetchRowCells(raw, descs) ==
    /\ res_obj' = [res_obj EXCEPT ![result].fetched = @ + 1]
    /\ fields' = descs
    /\ ret' = ConvertRow(descs.cols, raw, 1, <<>>,
                         [Returned("fetch_row", "None", TRUE)
                             EXCEPT !.pull = "row", !.pending = last_errno,
                                    !.cells = raw])
    /\ UNCHANGED <<result, have_result_set, field_count, last_errno, conn_status>>

\* MySQL_fetch_row on the result r.  The connection can be lost while a
\* row of a streamed result is read.
FetchRowOf(r) ==
    \/ /\ r.fetched = r.total
       /\ FetchRowNull(r, last_errno)
    \/ /\ r.fetched # r.total /\ r.use
       /\ FetchRowNull(r, ServerLost.code)
    \/ /\ r.fetched # r.total
       /\ \E raw \in RawRows(Len(Columns(r.stmt))) :
             FetchRowCells(raw, IF fields.isnull THEN fetch_fields(r) ELSE fields)

MySQL_fetch_row ==
    /\ IF result = 0
       THEN /\ ret' = Returned("fetch_row", "None", FALSE)
            /\ UNCHANGED <<result, fields, have_result_set, field_count, last_errno,
                           conn_status, res_obj>>
       ELSE FetchRowOf(res_obj[result])
    /\ UNCHANGED <<self_raw, self_raw_as_string, self_buffered, codecVars, stmtVars, lockVars>>

(***************************************************************************)
(* The codec on its own: texts as the server sends them, and dates of the  *)
(* host written as text and read back.                                     *)
(***************************************************************************)
\* n >= 0 in decimal, zero-padded to width digits: the server's "%0*d".
RECURSIVE ZeroPad(_, _)
ZeroPad(n, width) ==
    IF width <= 1 THEN DecimalText(n)
    ELSE ZeroPad(n \div 10, width - 1) \o DecimalText(n % 10)

\* "YYYY-MM-DD" as the server writes a DATE, with the separators given.
WireDateWith(d, sep1, sep2) ==
    ZeroPad(d.year, 4) \o sep1 \o ZeroPad(d.month, 2) \o sep2 \o ZeroPad(d.day, 2)

WireDateText(d) == WireDateWith(d, <<"-">>, <<"-">>)

\* "YYYY-MM-DD HH:MM:SS" as the server writes a DATETIME, then the fraction.
WireDatetimeText(d, fr) ==
    WireDateText(d) \o <<" ">> \o ZeroPad(d.hour, 2) \o <<":">> \o ZeroPad(d.minute, 2)
        \o <<":">> \o ZeroPad(d.second, 2)
        \o (IF fr = <<>> THEN <<>> ELSE <<".">> \o fr)

Years == {0, 1, 4, 100, 400, 1900, 2000, 2023, 2024, 9999}

\* Every year-month-day the DATE texts are built from, valid or not.
FormDates == {PyDate(y, m, d) : y \in Years, m \in 0..MaxMonth, d \in 0..MaxDay}

\* The calendar, as the documentation of datetime.date gives it.
CalendarLeap(y) == y % 4 = 0 /\ (y % 100 # 0 \/ y % 400 = 0)
CalendarDays(y, m) ==
    IF m = 2 THEN (IF CalendarLeap(y) THEN 29 ELSE 28)
    ELSE IF m \in {4, 6, 9, 11} THEN 30 ELSE 31
CalendarValid(d) ==
    /\ d.year >= 1 /\ d.year <= 9999
    /\ d.month >= 1 /\ d.month <= 12
    /\ d.day >= 1 /\ d.day <= CalendarDays(d.year, d.month)

\* The datetime.date objects of the host.
HostDates == {d \in FormDates : CalendarValid(d)}

\* The dates the malformed texts are built from.
BaseDates == {PyDate(2024, 2, 29), PyDate(2023, 2, 29), PyDate(1, 1, 1),
              PyDate(9999, 12, 31)}
BadSeparators == {<<"/">>, <<":">>, <<" ">>, <<".">>}
LetterGroups == {<<"a", "b">>, <<"x", "1">>}
Trailers == {<<"x">>, <<"T">>, <<" ", "1", "0", ":", "3", "0", ":", "0", "0">>}

\* A DATE text with a separator that is not '-'.
WrongSeparatorTexts(d) ==
    {WireDateWith(d, s1, s2) : s1 \in BadSeparators, s2 \in BadSeparators \cup {<<"-">>}}
        \cup {WireDateWith(d, <<"-">>, s2) : s2 \in BadSeparators}

\* A DATE text with one group replaced by a group that starts with a letter.
LetterGroupTexts(d) ==
    {g \o <<"-">> \o ZeroPad(d.month, 2) \o <<"-">> \o ZeroPad(d.day, 2) :
        g \in LetterGroups}
    \cup {ZeroPad(d.year, 4) \o <<"-">> \o g \o <<"-">> \o ZeroPad(d.day, 2) :
        g \in LetterGroups}
    \cup {ZeroPad(d.year, 4) \o <<"-">> \o ZeroPad(d.month, 2) \o <<"-">> \o g :
        g \in LetterGroups}

\* A DATE text followed by characters that are no part of a date.
TrailerTexts(d) == {WireDateText(d) \o t : t \in Trailers}

DatetimeBases == {PyValue("datetime", 2024, 1, 1, 0, 0, 0, 0),
                  PyValue("datetime", 1999, 12, 31, 23, 59, 59, 0)}
FracChars == {"0", "5", "9"}
Fractions ==
    UNION {[1..n -> FracChars] : n \in 0..MaxFrac}
        \cup {<<"1", "2", "3", "4", "5", "6", "7">>, <<"1", "2", "3">>}

\* Texts that match neither the DATETIME nor the TIME grammar: the empty
\* text and texts with no group of digits.
MalformedTexts == {<<>>, <<"a", "b">>, <<"x">>, <<":">>, <<".">>, <<"-">>}

\* The parts the TIME texts are built from; the server sends hours up to 838.
TimeSigns == {<<>>, <<"-">>}
TimeHours == {0, 1, 23, 24, 25, 838}
TimeMinSec == {0, 59}
TimeFractions == {<<>>, <<"5">>, <<"0", "5">>, <<"1", "2", "3", "4", "5", "6">>,
                  <<"0", "0", "0", "0", "0", "9">>,
                  <<"1", "2", "3", "4", "5", "6", "7">>,
                  <<"0", "0", "0", "0", "0", "0", "9">>}

\* "[-]HH:MM:SS[.f]" as the server writes a TIME; the hours take three
\* digits from 100 on.
WireTimeText(sg, h, m, sc, fr) ==
    sg \o (IF h < 100 THEN ZeroPad(h, 2) ELSE DecimalText(h)) \o <<":">>
       \o ZeroPad(m, 2) \o <<":">> \o ZeroPad(sc, 2)
       \o (IF fr = <<>> THEN <<>> ELSE <<".">> \o fr)

(***************************************************************************)
(* MySQL_convert_to_mysql.  A value of the host is its Python type (kind),  *)
(* the text of str(value) or its bytes (text), and its date and time       *)
(* fields (v).                                                             *)
(***************************************************************************)
HostValue(kind, txt, v) == [kind |-> kind, text |-> txt, v |-> v]

\* PyOS_snprintf(result, size, ...): at most size - 1 characters are written.
Snprintf(txt, size) == IF Len(txt) < size THEN txt ELSE SubSeq(txt, 1, size - 1)

TimeOfDayText(h, m, sc, us) ==
    ZeroPad(h, 2) \o <<":">> \o ZeroPad(m, 2) \o <<":">> \o ZeroPad(sc, 2)
        \o (IF us # 0 THEN <<".">> \o ZeroPad(us, 6) ELSE <<>>)

\* pytomy_time: "%02d:%02d:%02d" and ".%06d" when the microseconds are not 0
pytomy_time(obj) == Snprintf(TimeOfDayText(obj.hour, obj.minute, obj.second, obj.usec), 17)

\* pytomy_datetime: "%04d-%02d-%02d %02d:%02d:%02d" and ".%06d"
pytomy_datetime(obj) ==
    Snprintf(ZeroPad(obj.year, 4) \o <<"-">> \o ZeroPad(obj.month, 2) \o <<"-">>
                 \o ZeroPad(obj.day, 2) \o <<" ">>
                 \o TimeOfDayText(obj.hour, obj.minute, obj.second, obj.usec), 27)

\* pytomy_timedelta on a timedelta that is not negative: days, seconds and
\* microseconds are the fields of the object, minus stays empty.
pytomy_timedelta(obj) ==
    Snprintf(TimeOfDayText((obj.day * 86400 + obj.second) \div 3600,
                           ((obj.day * 86400 + obj.second) % 3600) \div 60,
                           ((obj.day * 86400 + obj.second) % 3600) % 60,
                           obj.usec), 17)

\* total_secs and micro_secs of pytomy_timedelta before the division into
\* hours, minutes and seconds: abs(days * 86400 + secs), and for a negative
\* timedelta with microseconds one second less and 1000000 - micro_secs.
DeltaTotalSecs(obj) ==
    (IF obj.day * 86400 + obj.second < 0
     THEN 0 - (obj.day * 86400 + obj.second) ELSE obj.day * 86400 + obj.second)
        - (IF obj.usec # 0 /\ obj.day < 0 THEN 1 ELSE 0)
DeltaMicroSecs(obj) ==
    IF obj.usec # 0 /\ obj.day < 0 THEN 1000000 - obj.usec ELSE obj.usec

\* What "%s" takes at minus.  char minus[1] has no room for the NUL after
\* '-': the directive reads on in the bytes that follow the array, which
\* hold a NUL ("-" alone) or something else first ("?" stands for it).
MinusTexts(obj) == IF obj.day < 0 THEN {<<"-">>, <<"-", "?">>} ELSE {<<>>}

\* pytomy_timedelta for the text minus: PyOS_snprintf(result, 17, fmt, minus,
\* hours, mins, secs [, micro_secs])
TimedeltaText(obj, minus) ==
    Snprintf(minus \o TimeOfDayText(DeltaTotalSecs(obj) \div 3600,
                                    (DeltaTotalSecs(obj) % 3600) \div 60,
                                    (DeltaTotalSecs(obj) % 3600) % 60,
                                    DeltaMicroSecs(obj)), 17)

\* mysql_real_escape_string_quote(..., '\'') with backslash escapes on
RECURSIVE EscapeFrom(_, _)
EscapeFrom(from, i) ==
    IF i > Len(from) THEN <<>>
    ELSE (CASE from[i] = "NUL" -> <<"\\", "0">>
            [] from[i] \in {"'", "\\"} -> <<"\\", from[i]>>
            [] OTHER -> <<from[i]>>) \o EscapeFrom(from, i + 1)

\* MySQL_escape_string(self, value) for str, bytes and bytearray
MySQL_escape_string(value) == EscapeFrom(value.text, 1)

\* The characters "%s" takes from a C string: those before the first NUL.
RECURSIVE CString(_, _)
CString(bytes, i) ==
    IF i > Len(bytes) \/ bytes[i] = "NUL" THEN <<>>
    ELSE <<bytes[i]>> \o CString(bytes, i + 1)

\* PyBytes_FromFormat("'%s'", PyBytes_AsString(new_value))
Quoted(new_value) == <<"'">> \o CString(new_value, 1) \o <<"'">>

\* The fragment with every value left without quotes.
FragmentUnquoted(value, fallback) ==
    CASE value.kind = "None" -> <<"N", "U", "L", "L">>
      [] value.kind \in {"str", "bytes", "bytearray"} -> MySQL_escape_string(value)
      [] value.kind = "datetime" -> pytomy_datetime(value.v)
      [] value.kind = "date" -> pytomy_date(value.v)
      [] value.kind = "time" -> pytomy_time(value.v)
      [] value.kind = "timedelta" -> pytomy_timedelta(value.v)
      [] OTHER -> CString(value.text, 1)

\* The body of the loop of MySQL_convert_to_mysql for a value one of the
\* branches takes: the bytes stored in prepared[i].
Fragment(value, fallback) ==
    CASE value.kind = "None" -> <<"N", "U", "L", "L">>
      [] value.kind \in {"int", "float"} ->
            \* PyBytes_FromString(PyUnicode_1BYTE_DATA(PyObject_Str(value)))
            CString(value.text, 1)
      [] value.kind \in {"str", "bytes", "bytearray"} ->
            Quoted(MySQL_escape_string(value))
      [] value.kind = "datetime" -> Quoted(pytomy_datetime(value.v))
      [] value.kind = "date" -> Quoted(pytomy_date(value.v))
      [] value.kind = "time" -> Quoted(pytomy_time(value.v))
      [] value.kind = "timedelta" -> Quoted(pytomy_timedelta(value.v))
      [] value.kind = "Decimal" ->
            \* pytomy_decimal, stored as it is
            CString(value.text, 1)
      [] OTHER ->
            \* self->converter_str_fallback == Py_True: str(value), quoted
            Quoted(CString(value.text, 1))

\* MySQL_convert_to_mysql(self, args) from value i on; prepared is the tuple
\* so far.
RECURSIVE ConvertFrom(_, _, _, _)
ConvertFrom(args, i, prepared, fallback) ==
    IF i > Len(args) THEN [kind |-> "tuple", data |-> prepared, exc |-> NoExc]
    ELSE IF ~fallback /\ args[i].kind \notin {"None", "int", "float", "str", "bytes",
                                              "bytearray", "datetime", "date", "time",
                                              "timedelta", "Decimal"}
    THEN \* goto error: Py_XDECREF(prepared); return NULL
         [kind |-> "error", data |-> <<>>,
          exc |-> PyExc("MySQLInterfaceError",
                        "Python type " \o args[i].kind \o " cannot be converted")]
    ELSE ConvertFrom(args, i + 1, Append(prepared, Fragment(args[i], fallback)),
                     fallback)

MySQL_convert_to_mysql(args, fallback) == ConvertFrom(args, 1, <<>>, fallback)

\* The values passed to MySQL_convert_to_mysql.
HostValues ==
    {HostValue("None", <<>>, PyNone),
     HostValue("int", <<"-", "3">>, PyNone),
     HostValue("float", <<"1", ".", "5">>, PyNone),
     HostValue("str", <<"a", "'", "b">>, PyNone),
     HostValue("bytes", <<"a", "\\">>, PyNone),
     HostValue("bytearray", <<"NUL", "a">>, PyNone),
     HostValue("datetime", <<>>, PyValue("datetime", 2024, 1, 5, 10, 30, 0, 0)),
     HostValue("date", <<>>, PyDate(2024, 12, 31)),
     HostValue("time", <<>>, PyValue("time", 0, 0, 0, 9, 5, 0, 500000)),
     HostValue("timedelta", <<>>, PyValue("timedelta", 0, 0, 34, 0, 0, 82799, 0)),
     HostValue("Decimal", <<"1", ".", "5", "0">>, PyNone),
     \* str(["a"]) is ['a']
     HostValue("list", <<"[", "'", "a", "'", "]">>, PyNone)}
HostTuples == UNION {[1..n -> HostValues] : n \in 0..MaxParams}

\* What mysql_character_set_name gives ("NULL": no name), and the bytes of
\* the cells.
SessionCharsets == {"NULL", "utf8mb4", "utf8mb3", "latin1", "binary"}
StringBytes == {<<>>, <<"a">>, <<"C3", "A9">>, <<"a", "C3", "A9">>, <<"C3">>,
                <<"A9", "a">>}

\* The character sets of the sessions that read SET columns, and the bytes
\* of their cells: no member, one, two, a member that is not ASCII.
SetCharsets == {"utf8mb4", "latin1"}
SetBytes == {<<>>, <<"a">>, <<"a", ",", "b">>, <<"C3", "A9", ",", "a">>}

CodecInit ==
    /\ cpc = "idle"
    /\ cls = "none"
    /\ din = PyNone
    /\ frac = <<>>
    /\ text = <<>>
    /\ dout = PyNone
    /\ text2 = <<>>

\* date_to_mysql: pytomy_date on a date of the host
CallPytomyDate ==
    /\ cpc = "idle"
    /\ \E d \in HostDates :
          /\ din' = d
          /\ text' = pytomy_date(d)
    /\ cls' = "host"
    /\ cpc' = "date_text"
    /\ UNCHANGED <<frac, dout, text2, sessionVars, stmtVars, lockVars>>

\* The server sends the text of a DATE cell.
RecvDate ==
    /\ cpc = "idle"
    /\ \/ \E d \in FormDates :
             /\ din' = d /\ cls' = "form" /\ text' = WireDateText(d)
       \/ \E d \in BaseDates :
             /\ din' = d
             /\ \/ cls' = "separator" /\ text' \in WrongSeparatorTexts(d)
                \/ cls' = "group" /\ text' \in LetterGroupTexts(d)
                \/ cls' = "trailer" /\ text' \in TrailerTexts(d)
    /\ cpc' = "date_text"
    /\ UNCHANGED <<frac, dout, text2, sessionVars, stmtVars, lockVars>>

CallMytopyDate ==
    /\ cpc = "date_text"
    /\ dout' = mytopy_date(text)
    /\ cpc' = "date_value"
    /\ UNCHANGED <<cls, din, frac, text, text2, sessionVars, stmtVars, lockVars>>

\* pytomy_date on the date mytopy_date returned
CallPytomyDateAgain ==
    /\ cpc = "date_value"
    /\ dout.kind = "date"
    /\ text2' = pytomy_date(dout)
    /\ cpc' = "date_text2"
    /\ UNCHANGED <<cls, din, frac, text, dout, sessionVars, stmtVars, lockVars>>

\* The server sends the text of a DATETIME cell.
RecvDatetime ==
    /\ cpc = "idle"
    /\ \/ \E d \in DatetimeBases, fr \in Fractions :
             /\ din' = d
             /\ frac' = fr
             /\ text' = WireDatetimeText(d, fr)
             /\ cls' = "datetime"
       \/ \E t \in MalformedTexts :
             /\ din' = PyNone
             /\ frac' = <<>>
             /\ text' = t
             /\ cls' = "malformed"
    /\ cpc' = "datetime_text"
    /\ UNCHANGED <<dout, text2, sessionVars, stmtVars, lockVars>>

\* After a write outside parts[] the function goes on with the values it
\* has, or the process does anything else (PyUndefined).
CallMytopyDatetime ==
    /\ cpc = "datetime_text"
    /\ \/ dout' = mytopy_datetime(text, Len(text))
       \/ /\ DatetimeScan(text, Len(text)).oob
          /\ dout' = PyUndefined
    /\ cpc' = "datetime_value"
    /\ UNCHANGED <<cls, din, frac, text, text2, sessionVars, stmtVars, lockVars>>

\* The server sends the text of a TIME cell, "[-]H:M:S[.f]".
RecvTime ==
    /\ cpc = "idle"
    /\ \/ \E sg \in TimeSigns, h \in TimeHours, m \in TimeMinSec, sc \in TimeMinSec,
             fr \in TimeFractions :
             /\ din' = PyValue("time", 0, 0, 0, h, m, sc, 0)
             /\ frac' = fr
             /\ text' = WireTimeText(sg, h, m, sc, fr)
             /\ cls' = "time"
       \/ \E t \in MalformedTexts :
             /\ din' = PyNone
             /\ frac' = <<>>
             /\ text' = t
             /\ cls' = "malformed"
    /\ cpc' = "time_text"
    /\ UNCHANGED <<dout, text2, sessionVars, stmtVars, lockVars>>

CallMytopyTime ==
    /\ cpc = "time_text"
    /\ dout' = mytopy_time(text, Len(text))
    /\ cpc' = "time_value"
    /\ UNCHANGED <<cls, din, frac, text, text2, sessionVars, stmtVars, lockVars>>

\* Texts of n groups of digits with ':' between them.
RECURSIVE GroupText(_)
GroupText(n) == IF n <= 1 THEN <<"1">> ELSE GroupText(n - 1) \o <<":", "1">>
GroupTexts == {GroupText(n) : n \in 1..MaxGroups}

\* The server sends a text of groups of digits as a DATETIME or a TIME cell.
RecvGroups ==
    /\ cpc = "idle"
    /\ text' \in GroupTexts
    /\ din' = PyNone
    /\ frac' = <<>>
    /\ cls' = "groups"
    /\ cpc' \in {"datetime_text", "time_text"}
    /\ UNCHANGED <<dout, text2, sessionVars, stmtVars, lockVars>>

\* The timedeltas of the host within the range of a TIME (less than 839
\* hours either way), as datetime.timedelta holds them: days of either
\* sign, seconds and microseconds that are not negative.
HostDeltas ==
    {d \in {PyValue("timedelta", 0, 0, dy, 0, 0, sc, us) :
                dy \in {-35, -5, -1, 0, 4, 34}, sc \in {0, 1, 3601, 86399},
                us \in {0, 1, 123456, 500000}} :
        /\ d.day * 86400 + d.second > 0 - 839 * 3600
        /\ d.day * 86400 + d.second < 839 * 3600}

\* timedelta_to_mysql: pytomy_timedelta on a timedelta of the host; the text
\* then goes through mytopy_time.
CallPytomyTimedelta ==
    /\ cpc = "idle"
    /\ \E d \in HostDeltas :
          /\ din' = d
          /\ \E minus \in MinusTexts(d) : text' = TimedeltaText(d, minus)
    /\ frac' = <<>>
    /\ cls' = "delta"
    /\ cpc' = "time_text"
    /\ UNCHANGED <<dout, text2, sessionVars, stmtVars, lockVars>>

\* The server sends the bytes of a string cell of a column with the given
\* flags, in a session with the given character set and unicode mode.
RecvString ==
    /\ cpc = "idle"
    /\ \E fl \in SUBSET {"BINARY", "BLOB"}, uu \in BOOLEAN, cs \in SessionCharsets,
          t \in StringBytes :
          /\ din' = [kind |-> "column", flags |-> fl, use_unicode |-> uu, csname |-> cs]
          /\ text' = t
    /\ frac' = <<>>
    /\ cls' = "string"
    /\ cpc' = "string_bytes"
    /\ UNCHANGED <<dout, text2, sessionVars, stmtVars, lockVars>>

\* charset = my2py_charset_name(session); mytopy_string(row[i], ...)
CallMytopyString ==
    /\ cpc = "string_bytes"
    /\ dout' = mytopy_string(text, din.flags, python_characterset_name(din.csname),
                             din.use_unicode)
    /\ cpc' = "string_value"
    /\ UNCHANGED <<cls, din, frac, text, text2, sessionVars, stmtVars, lockVars>>

\* The server sends the bytes of a cell of a SET column, to a session with
\* the given character set and unicode mode.
RecvSet ==
    /\ cpc = "idle"
    /\ \E uu \in BOOLEAN, cs \in SetCharsets, t \in SetBytes :
          /\ din' = [kind |-> "column", flags |-> {"SET"}, use_unicode |-> uu,
                     csname |-> cs]
          /\ text' = t
    /\ frac' = <<>>
    /\ cls' = "set"
    /\ cpc' = "set_bytes"
    /\ UNCHANGED <<dout, text2, sessionVars, stmtVars, lockVars>>

\* The cell in the row of MySQL_fetch_row and in the row of
\* MySQLPrepStmt_fetch_row.
FetchSetCells ==
    /\ cpc = "set_bytes"
    /\ dout' = [kind |-> "cells",
                text_cell |-> TextSetCell(text, din.flags,
                                          python_characterset_name(din.csname),
                                          din.use_unicode),
                stmt_cell |-> PrepSetCell(text)]
    /\ cpc' = "set_value"
    /\ UNCHANGED <<cls, din, frac, text, text2, sessionVars, stmtVars, lockVars>>

\* The caller passes the values args to a session with the given fallback.
RecvArgs ==
    /\ cpc = "idle"
    /\ \E args \in HostTuples, fb \in BOOLEAN :
          din' = [kind |-> "args", args |-> args, fallback |-> fb]
    /\ cls' = "args"
    /\ cpc' = "args"
    /\ UNCHANGED <<frac, text, dout, text2, sessionVars, stmtVars, lockVars>>

CallConvertToMysql ==
    /\ cpc = "args"
    /\ dout' = MySQL_convert_to_mysql(din.args, din.fallback)
    /\ cpc' = "fragments"
    /\ UNCHANGED <<cls, din, frac, text, text2, sessionVars, stmtVars, lockVars>>

CodecNext ==
    \/ CallPytomyDate
    \/ RecvDate
    \/ CallMytopyDate
    \/ CallPytomyDateAgain
    \/ RecvDatetime
    \/ CallMytopyDatetime
    \/ RecvTime
    \/ CallMytopyTime
    \/ CallPytomyTimedelta
    \/ RecvGroups
    \/ RecvString
    \/ CallMytopyString
    \/ RecvSet
    \/ FetchSetCells
    \/ RecvArgs
    \/ CallConvertToMysql

(***************************************************************************)
(* A prepared statement (MySQLPrepStmt), from the moment MySQL_stmt_prepare *)
(* returned it.                                                            *)
(***************************************************************************)
\* Errors mysql_stmt_execute and mysql_stmt_fetch can fail with:
\* ER_DUP_ENTRY, CR_SERVER_LOST.
StmtErrors == {1062, 2013}
\* CR_UNSUPPORTED_PARAM_TYPE, the error of mysql_stmt_bind_param.
BindErrors == {2036}

\* The Python types of the values passed to execute.
ParamKinds == {"None", "int", "float", "str", "bytes", "bytearray", "datetime",
               "date", "time", "timedelta", "Decimal", "list"}
\* The ones the callers of the model pass to execute: one of each way through
\* the chain (a branch that ends in continue, the caller's bytes, the copy of
\* a bytearray, the decimal branch, no branch).
CallerKinds == {"None", "str", "bytearray", "Decimal", "list"}
ParamTuples == UNION {[1..n -> CallerKinds] : n \in 0..MaxParams}

\* The outcome of a call on the statement.  binds: buffer_type of mbinds[];
\* str_value: bindings[].str_value; decref: the positions released at cleanup;
\* oob: a bind was written outside mbinds[]; calls: the native calls issued,
\* in order; server: the error code the failing native call reported.
StmtReturned(op, kind) ==
    [op |-> op, kind |-> kind, exc |-> NoExc, row |-> <<>>, desc |-> NullFields,
     binds |-> <<>>, oob |-> FALSE, calls |-> <<>>, server |-> 0,
     cells |-> <<>>, built |-> {}, fetches |-> <<>>, on_entry |-> <<>>,
     str_value |-> <<>>, decref |-> {},
     at_fetch |-> <<>>]

StmtRaised(op, exc, calls, server) ==
    [StmtReturned(op, "error") EXCEPT !.exc = exc, !.calls = calls, !.server = server]

\* buffer_type for a value of the Python type kind; "unsupported" when no
\* branch of the chain takes it.
BindTypeOf(kind, fallback) ==
    CASE kind = "None" -> "NULL"
      [] kind = "int" -> "LONGLONG"
      [] kind = "float" -> "FLOAT"
      [] kind \in {"str", "bytes", "bytearray"} -> "STRING"
      [] kind = "datetime" -> "DATETIME"
      [] kind = "date" -> "DATE"
      [] kind \in {"time", "timedelta"} -> "TIME"
      [] kind = "Decimal" -> "DECIMAL"
      [] OTHER -> IF fallback THEN "STRING" ELSE "unsupported"

\* mbinds = calloc(size, sizeof(MYSQL_BIND)): buffer_type 0 is MYSQL_TYPE_DECIMAL
CallocBinds(size) ==
    [binds |-> [i \in 1..size |-> "DECIMAL"], oob |-> FALSE, exc |-> NoExc,
     str_value |-> [i \in 1..size |-> "NULL"]]

\* mbind[i].buffer_type = MYSQL_TYPE_DECIMAL with mbind == &mbinds[i]: the
\* write lands on mbinds[2 * i].  target is that slot, counted from 1.
DecimalSlot(b, target, size) ==
    IF target <= size THEN [b EXCEPT !.binds[target] = "DECIMAL"]
    ELSE [b EXCEPT !.oob = TRUE]

\* pbind->str_value for a value of the Python type kind: "caller" is the
\* value itself (pbind->str_value = value), "call" an object made for the
\* call (PyBytes_FromObject, pytomy_decimal, PyBytes_FromString), "NULL" what
\* calloc left for the branches that end in continue or raise.
StrValueOf(kind, fallback) ==
    CASE kind \in {"str", "bytes"} -> "caller"
      [] kind \in {"bytearray", "Decimal"} -> "call"
      [] kind \in {"None", "int", "float", "datetime", "date", "time", "timedelta"} ->
            "NULL"
      [] OTHER -> IF fallback THEN "call" ELSE "NULL"

\* The for loop of MySQLPrepStmt_execute over the values, from value p on.
RECURSIVE BindParams(_, _, _, _)
BindParams(args, p, b, fallback) ==
    IF p > Len(args) THEN b
    ELSE IF args[p] = "Decimal"
    THEN BindParams(args, p + 1,
                    DecimalSlot([b EXCEPT !.str_value[p] = StrValueOf(args[p], fallback)],
                                2 * p - 1, Len(args)), fallback)
    ELSE IF BindTypeOf(args[p], fallback) = "unsupported"
    THEN [b EXCEPT !.exc = PyExc("MySQLInterfaceError",
                                 "Python type " \o args[p] \o " cannot be converted")]
    ELSE BindParams(args, p + 1,
                    [b EXCEPT !.binds[p] = BindTypeOf(args[p], fallback),
                              !.str_value[p] = StrValueOf(args[p], fallback)], fallback)

\* The loop after the cleanup label: the positions whose str_value gets
\* Py_XDECREF, which does nothing on NULL.
Cleanup(b) ==
    {i \in 1..Len(b.binds) : b.binds[i] = "DECIMAL" /\ b.str_value[i] # "NULL"}

\* The conversion of one non-null column of a fetched row in
\* MySQLPrepStmt_fetch_row.  fetched: the column is pulled with
\* mysql_stmt_fetch_column.
StmtCell(item, exc, fetched) == [item |-> item, exc |-> exc, fetched |-> fetched]

StmtConvertCell(desc, raw) ==
    CASE desc.type \in {"TINY", "SHORT", "LONG", "LONGLONG", "INT24", "YEAR"} ->
            StmtCell("int", NoExc, FALSE)
      [] desc.type \in {"FLOAT", "DOUBLE"} -> StmtCell("float", NoExc, FALSE)
      [] desc.type = "DATE" ->
            StmtCell(DateCell(mytopy_date(DateCellText(raw))).item,
                     DateCell(mytopy_date(DateCellText(raw))).exc, TRUE)
      [] desc.type \in {"DATETIME", "TIMESTAMP"} ->
            StmtCell(mytopy_datetime(DatetimeCellText(raw),
                                     Len(DatetimeCellText(raw))).kind, NoExc, TRUE)
      [] desc.type = "TIME" -> StmtCell("timedelta", NoExc, TRUE)
      [] desc.type \in {"NEWDECIMAL", "DECIMAL"} ->
            IF raw = "bad"
            THEN StmtCell("unset", PyExc("InvalidOperation", "ConversionSyntax"), TRUE)
            ELSE StmtCell("Decimal", NoExc, TRUE)
      [] desc.type = "GEOMETRY" -> StmtCell("bytearray", NoExc, TRUE)
      [] OTHER ->
            IF "SET" \in desc.flags THEN StmtCell("set", NoExc, TRUE)
            ELSE IF desc.type = "BIT" THEN StmtCell("int", NoExc, TRUE)
            ELSE IF desc.charsetnr = 63 THEN StmtCell("bytearray", NoExc, TRUE)
            ELSE IF raw = "bad" THEN StmtCell("unset", DecodeError, TRUE)
            ELSE StmtCell("str", NoExc, TRUE)

\* The second for loop of MySQLPrepStmt_fetch_row.  colerr is the column
\* whose is_error flag is set after mysql_stmt_fetch_column (0: none).
RECURSIVE StmtConvertRow(_, _, _, _, _)

\* The length of the buffer the column is bound to before
\* mysql_stmt_fetch_column, left at the length of the first loop.
RebindLengthStale(length) == 0

\* self->bind[i].buffer_length = self->cols[i].length
RebindLength(length) == length

\* obj = PyBytes_FromStringAndSize(NULL, self->cols[i].length), the bind of
\* the column set to it, then mysql_stmt_fetch_column(self->stmt,
\* &self->bind[i], i, 0): the call as fetches records it.
FetchColumn(desc, raw, i) ==
    [col |-> i, buffer_length |-> RebindLength(WireLength(desc, raw))]

StmtStoreCell(descs, raw, i, colerr, acc, c) ==
    IF c.fetched /\ colerr = i
    THEN \* PyErr_SetString(MySQLInterfaceError, mysql_stmt_error(self->stmt))
         [acc EXCEPT !.kind = "error", !.row = <<>>,
                     !.calls = Append(@, "mysql_stmt_fetch_column"),
                     !.fetches = Append(@, FetchColumn(descs[i], raw[i], i)),
                     !.exc = PyExc("MySQLInterfaceError", ErrorTextOf(stmt_errno))]
    ELSE StmtConvertRow(descs, raw, i + 1, colerr,
            [acc EXCEPT !.row = Append(@, c.item),
                        !.built = @ \cup {i},
                        !.calls = IF c.fetched
                                  THEN Append(@, "mysql_stmt_fetch_column") ELSE @,
                        !.fetches = IF c.fetched
                                    THEN Append(@, FetchColumn(descs[i], raw[i], i))
                                    ELSE @,
                        !.exc = IF c.exc = NoExc THEN @ ELSE c.exc])

StmtConvertRow(descs, raw, i, colerr, acc) ==
    IF i > Len(descs)
    THEN [acc EXCEPT !.kind = "row"]
    ELSE IF raw[i] = "NULL"
    THEN StmtConvertRow(descs, raw, i + 1, colerr,
                        [acc EXCEPT !.row = Append(@, "None")])
    ELSE StmtStoreCell(descs, raw, i, colerr, acc, StmtConvertCell(descs[i], raw[i]))

\* The bind MySQLPrepStmt_handle_result sets up for a column: the inline
\* buffer of the column for the integers, FLOAT and DOUBLE, no buffer for
\* every other type.
ResultBindOf(desc, i) ==
    CASE desc.type \in {"TINY", "SHORT", "INT24", "YEAR", "LONG", "LONGLONG"} ->
            [buffer |-> <<"small_buffer.l", i>>, buffer_length |-> 8]
      [] desc.type = "FLOAT" -> [buffer |-> <<"small_buffer.f", i>>, buffer_length |-> 4]
      [] desc.type = "DOUBLE" -> [buffer |-> <<"small_buffer.d", i>>, buffer_length |-> 8]
      [] OTHER -> [buffer |-> <<"NULL", 0>>, buffer_length |-> 0]

ResultBind(descs) == [i \in 1..Len(descs) |-> ResultBindOf(descs[i], i)]

\* The first loop of MySQLPrepStmt_fetch_row that resets no column.
FirstLoopKeep(bind, descs) == bind

\* The first loop of MySQLPrepStmt_fetch_row: the binds of the types it does
\* not list lose their buffer.
FirstLoop(bind, descs) ==
    [i \in 1..Len(bind) |->
        IF descs[i].type \in {"NULL", "TINY", "SHORT", "INT24", "LONG", "LONGLONG",
                              "YEAR", "FLOAT", "DOUBLE"}
        THEN bind[i]
        ELSE [buffer |-> <<"NULL", 0>>, buffer_length |-> 0]]

\* self->bind once the second loop issued the calls of fetches: the bind of
\* a fetched column points into the object built for it.
Rebound(bind, fetches) ==
    [i \in 1..Len(bind) |->
        IF \E k \in 1..Len(fetches) : fetches[k].col = i
        THEN [buffer |-> <<"obj", i>>,
              buffer_length |-> (CHOOSE f \in {fetches[k] : k \in 1..Len(fetches)} :
                                    f.col = i).buffer_length]
        ELSE bind[i]]

\* The memory of a statement.  obj: the MySQLPrepStmt object ("none" before
\* MySQL_stmt_prepare, "live", "freed" after tp_free); stmt: the MYSQL_STMT
\* self->stmt points to ("NULL", "open", or "closed": freed by
\* mysql_stmt_close, the pointer kept); closes: the calls of mysql_stmt_close
\* on it; res, bind, cols: the MYSQL_RES of mysql_stmt_result_metadata and
\* the calloc'ed arrays that are allocated and not freed.
NoStatement ==
    [obj |-> "none", stmt |-> "NULL", closes |-> 0, res |-> 0, bind |-> 0, cols |-> 0]

\* MySQLPrepStmt_new, then prep_stmt->stmt = mysql_stmt
Prepared == [NoStatement EXCEPT !.obj = "live", !.stmt = "open"]

\* The statements that are prepared and the values they are executed with:
\* the statements that return rows take one value at most.
StmtDefs ==
    {d \in [stmt : Statements, args : ParamTuples, fallback : BOOLEAN] :
        d.stmt = "UPDATE" \/ Len(d.args) <= 1}

\* MySQL_stmt_prepare returned the statement object: MySQLPrepStmt_new, then
\* stmt, res and param_count are assigned.
StmtInit ==
    /\ stmt_def \in StmtDefs
    /\ stmt_res = "NULL"
    /\ stmt_have_result_set = FALSE
    /\ stmt_column_count = 0
    /\ stmt_fields = NullFields
    /\ stmt_errno = 0
    /\ stmt_rows = 0
    /\ stmt_bind = <<>>
    /\ stmt_mem = Prepared
    /\ stmt_ret = StmtReturned("stmt_prepare", "stmt")

\* No prepared statement is in use.
StmtIdle ==
    /\ stmt_def = [stmt |-> "UPDATE", args |-> <<>>, fallback |-> FALSE]
    /\ stmt_res = "NULL"
    /\ stmt_have_result_set = FALSE
    /\ stmt_column_count = 0
    /\ stmt_fields = NullFields
    /\ stmt_errno = 0
    /\ stmt_rows = 0
    /\ stmt_bind = <<>>
    /\ stmt_mem = NoStatement
    /\ stmt_ret = StmtReturned("none", "None")

\* MySQLPrepStmt_handle_result.  bound: mysql_stmt_bind_result succeeded.
MySQLPrepStmt_handle_result(b, calls, rows, bound) ==
    IF Columns(stmt_def.stmt) = <<>>
    THEN \* mysql_stmt_result_metadata returned NULL
         /\ stmt_res' = "NULL"
         /\ stmt_have_result_set' = FALSE
         /\ stmt_errno' = 0
         /\ stmt_rows' = 0
         /\ stmt_ret' = [StmtReturned("execute", "True") EXCEPT
                            !.binds = b.binds, !.oob = b.oob, !.str_value = b.str_value,
                            !.decref = Cleanup(b),
                            !.calls = Append(calls, "mysql_stmt_result_metadata")]
         /\ UNCHANGED <<stmt_column_count, stmt_fields, stmt_bind, stmt_mem>>
    ELSE IF ~bound
    THEN \* mysql_free_result(self->res); self->res keeps the address
         /\ stmt_res' = "freed"
         /\ stmt_have_result_set' = TRUE
         /\ stmt_column_count' = Len(Columns(stmt_def.stmt))
         /\ stmt_errno' = 2036
         /\ stmt_rows' = 0
         \* free(self->bind): self->bind keeps the address
         /\ stmt_bind' = ResultBind(Columns(stmt_def.stmt))
         \* the three allocations of the call are freed again
         /\ UNCHANGED stmt_mem
         /\ stmt_ret' = [StmtRaised("execute",
                                    PyExc("MySQLInterfaceError", ErrorTextOf(2036)),
                                    calls \o <<"mysql_stmt_result_metadata",
                                               "mysql_stmt_bind_result">>, 2036)
                            EXCEPT !.binds = b.binds, !.oob = b.oob, !.str_value = b.str_value,
                            !.decref = Cleanup(b)]
         /\ UNCHANGED stmt_fields
    ELSE /\ stmt_res' = "open"
         /\ stmt_have_result_set' = TRUE
         /\ stmt_column_count' = Len(Columns(stmt_def.stmt))
         /\ stmt_errno' = 0
         /\ stmt_rows' = rows
         /\ stmt_bind' = ResultBind(Columns(stmt_def.stmt))
         \* mysql_stmt_result_metadata and the two calloc: nothing is freed
         /\ stmt_mem.bind < MaxLive
         /\ stmt_mem' = [stmt_mem EXCEPT !.res = @ + 1, !.bind = @ + 1, !.cols = @ + 1]
         /\ stmt_fields' = IF stmt_fields.isnull THEN fetch_fields(stmt_def)
                           ELSE stmt_fields
         /\ stmt_ret' = [StmtReturned("execute", "True") EXCEPT
                            !.binds = b.binds, !.oob = b.oob, !.str_value = b.str_value,
                            !.decref = Cleanup(b),
                            !.calls = calls \o <<"mysql_stmt_result_metadata",
                                                 "mysql_stmt_bind_result">>]

\* MySQLPrepStmt_execute once the values are bound into b.  bind_res and
\* exec_res are the error codes of mysql_stmt_bind_param and
\* mysql_stmt_execute (0: none).
ExecuteBound(b, bind_res, exec_res, rows, bound) ==
    IF bind_res # 0
    THEN /\ stmt_errno' = bind_res
         /\ stmt_ret' = [StmtRaised("execute",
                            PyExc("MySQLInterfaceError",
                                  "Bind the parameters: " \o ErrorTextOf(bind_res)),
                            <<"mysql_stmt_bind_param">>, bind_res)
                            EXCEPT !.binds = b.binds, !.oob = b.oob, !.str_value = b.str_value,
                            !.decref = Cleanup(b)]
         /\ UNCHANGED <<stmt_res, stmt_have_result_set, stmt_column_count,
                        stmt_fields, stmt_rows, stmt_bind, stmt_mem>>
    ELSE IF exec_res # 0
    THEN /\ stmt_errno' = exec_res
         /\ stmt_ret' = [StmtRaised("execute",
                            PyExc("MySQLInterfaceError",
                                  "Error while executing statement: "
                                      \o ErrorTextOf(exec_res)),
                            <<"mysql_stmt_bind_param", "mysql_stmt_execute">>, exec_res)
                            EXCEPT !.binds = b.binds, !.oob = b.oob, !.str_value = b.str_value,
                            !.decref = Cleanup(b)]
         /\ UNCHANGED <<stmt_res, stmt_have_result_set, stmt_column_count,
                        stmt_fields, stmt_rows, stmt_bind, stmt_mem>>
    ELSE MySQLPrepStmt_handle_result(
            b, <<"mysql_stmt_bind_param", "mysql_stmt_execute">>, rows, bound)

\* MySQLPrepStmt_execute with the values bound into b.  A value no branch
\* takes ends the call before any native call; a write outside mbinds[] can
\* stop the process.
ExecuteOf(b) ==
    \/ /\ b.exc # NoExc
       /\ stmt_ret' = [StmtRaised("execute", b.exc, <<>>, 0) EXCEPT
                          !.binds = b.binds, !.oob = b.oob, !.str_value = b.str_value,
                            !.decref = Cleanup(b)]
       /\ UNCHANGED <<stmt_res, stmt_have_result_set, stmt_column_count,
                      stmt_fields, stmt_errno, stmt_rows, stmt_bind, stmt_mem>>
    \/ /\ b.exc = NoExc /\ b.oob
       \* the process stops before the cleanup label
       /\ stmt_ret' = [StmtReturned("execute", "crash") EXCEPT
                          !.binds = b.binds, !.oob = b.oob, !.str_value = b.str_value]
       /\ UNCHANGED <<stmt_res, stmt_have_result_set, stmt_column_count,
                      stmt_fields, stmt_errno, stmt_rows, stmt_bind, stmt_mem>>
    \/ /\ b.exc = NoExc
       /\ \/ \E e \in BindErrors : ExecuteBound(b, e, 0, 0, TRUE)
          \/ \E e \in StmtErrors : ExecuteBound(b, 0, e, 0, TRUE)
          \/ ExecuteBound(b, 0, 0, 0, FALSE)
          \/ \E rows \in 0..MaxRows : ExecuteBound(b, 0, 0, rows, TRUE)

\* MySQLPrepStmt_execute(*args)
\* On a MYSQL_STMT that mysql_stmt_close freed, the native calls stop the
\* process or read the freed statement as it was.
MySQLPrepStmt_execute ==
    /\ stmt_ret.kind # "crash"
    /\ stmt_mem.obj = "live"
    /\ \/ /\ stmt_mem.stmt = "closed"
          /\ stmt_ret' = StmtReturned("execute", "crash")
          /\ UNCHANGED <<stmt_res, stmt_have_result_set, stmt_column_count,
                         stmt_fields, stmt_errno, stmt_rows, stmt_bind, stmt_mem>>
       \/ ExecuteOf(BindParams(stmt_def.args, 1, CallocBinds(Len(stmt_def.args)),
                               stmt_def.fallback))
    /\ UNCHANGED <<sessionVars, codecVars, lockVars, stmt_def>>

\* MySQLPrepStmt_fetch_row once mysql_field_seek(self->res, 0) returned.
StmtFetchRow ==
    \/ \E e \in StmtErrors :
          \* fetch == 1
          /\ stmt_errno' = e
          /\ stmt_ret' = [StmtRaised("fetch_row",
                             PyExc("MySQLInterfaceError",
                                   "Error while fetching: " \o ErrorTextOf(e)),
                             <<"mysql_stmt_fetch">>, e)
                             EXCEPT !.on_entry = stmt_bind,
                                    !.at_fetch = FirstLoop(stmt_bind,
                                                           Columns(stmt_def.stmt))]
          /\ stmt_bind' = FirstLoop(stmt_bind, Columns(stmt_def.stmt))
          /\ UNCHANGED <<stmt_rows, stmt_fields>>
    \/ /\ stmt_rows = 0
       \* fetch == MYSQL_NO_DATA
       /\ stmt_ret' = [StmtReturned("fetch_row", "None") EXCEPT
                          !.calls = <<"mysql_stmt_fetch">>,
                          !.on_entry = stmt_bind,
                          !.at_fetch = FirstLoop(stmt_bind, Columns(stmt_def.stmt))]
       /\ stmt_bind' = FirstLoop(stmt_bind, Columns(stmt_def.stmt))
       /\ UNCHANGED <<stmt_rows, stmt_fields, stmt_errno>>
    \/ /\ stmt_rows > 0
       /\ stmt_rows' = stmt_rows - 1
       /\ \E raw \in RawRows(stmt_column_count), colerr \in 0..stmt_column_count :
             /\ stmt_fields' = IF stmt_fields.isnull /\ \E i \in 1..Len(raw) : raw[i] # "NULL"
                               THEN fetch_fields(stmt_def) ELSE stmt_fields
             /\ stmt_ret' = StmtConvertRow(Columns(stmt_def.stmt), raw, 1, colerr,
                               [StmtReturned("fetch_row", "None") EXCEPT
                                   !.calls = <<"mysql_stmt_fetch">>,
                                   !.cells = raw,
                                   !.on_entry = stmt_bind,
                                   !.at_fetch = FirstLoop(stmt_bind,
                                                          Columns(stmt_def.stmt))])
       /\ stmt_bind' = Rebound(FirstLoop(stmt_bind, Columns(stmt_def.stmt)),
                               stmt_ret'.fetches)
       /\ UNCHANGED stmt_errno

\* MySQLPrepStmt_fetch_row.  mysql_field_seek dereferences self->res: a null
\* pointer stops the process, a dangling one stops it or reads the freed
\* metadata as it was.
MySQLPrepStmt_fetch_row ==
    /\ stmt_ret.kind # "crash"
    /\ stmt_mem.obj = "live"
    /\ \/ /\ stmt_res # "open" \/ stmt_mem.stmt = "closed"
          /\ stmt_ret' = StmtReturned("fetch_row", "crash")
          /\ UNCHANGED <<stmt_rows, stmt_fields, stmt_errno, stmt_bind>>
       \/ /\ stmt_res # "NULL"
          /\ StmtFetchRow
    /\ UNCHANGED <<sessionVars, codecVars, lockVars, stmt_def, stmt_res, stmt_have_result_set,
                   stmt_column_count, stmt_mem>>

\* MySQLPrepStmt_fetch_fields
MySQLPrepStmt_fetch_fields ==
    /\ stmt_ret.kind # "crash"
    /\ stmt_mem.obj = "live"
    /\ IF stmt_res = "NULL"
       THEN stmt_ret' = StmtRaised("fetch_fields",
                                   PyExc("MySQLInterfaceError", "No result"), <<>>, 0)
       ELSE IF ~stmt_fields.isnull
       THEN stmt_ret' = [StmtReturned("fetch_fields", "fields") EXCEPT
                            !.desc = stmt_fields]
       ELSE \/ /\ stmt_res = "freed"
               /\ stmt_ret' = StmtReturned("fetch_fields", "crash")
            \/ stmt_ret' = [StmtReturned("fetch_fields", "fields") EXCEPT
                               !.desc = fetch_fields(stmt_def),
                               !.calls = <<"mysql_num_fields">>]
    /\ UNCHANGED <<sessionVars, codecVars, lockVars, stmt_def, stmt_res, stmt_have_result_set,
                   stmt_column_count, stmt_fields, stmt_errno, stmt_rows, stmt_bind,
                   stmt_mem>>

\* The body of MySQLPrepStmt_free_result: mysql_stmt_free_result(self->stmt)
\* when self->res is not NULL, then fields, res and have_result_set are
\* reset.  The MYSQL_RES self->res pointed to is not freed.
FreeResult ==
    /\ stmt_fields' = NullFields
    /\ stmt_res' = "NULL"
    /\ stmt_have_result_set' = FALSE
    /\ stmt_rows' = 0

\* The native calls of FreeResult.
FreeResultCalls == IF stmt_res # "NULL" THEN <<"mysql_stmt_free_result">> ELSE <<>>

\* MySQLPrepStmt_free_result
MySQLPrepStmt_free_result ==
    /\ stmt_ret.kind # "crash"
    /\ stmt_mem.obj = "live"
    /\ FreeResult
    /\ stmt_ret' = [StmtReturned("free_result", "None") EXCEPT !.calls = FreeResultCalls]
    /\ UNCHANGED <<sessionVars, codecVars, lockVars, stmt_def, stmt_column_count, stmt_errno,
                   stmt_bind, stmt_mem>>

\* What mysql_stmt_error reads from a MYSQL_STMT that was freed: the text
\* as it was, or what the memory holds by then.
FreedErrorTexts(code) == {ErrorTextOf(code), "(freed memory)"}

\* The errors of mysql_stmt_prepare and of mysql_stmt_close.
PrepareErrors == {1064, 2013}
CloseErrors == {2013}

\* The statements MySQL_stmt_prepare prepares when the whole life of the
\* statement is followed.
LifeDefs == {d \in StmtDefs : d.args = <<>> /\ ~d.fallback
                              /\ d.stmt \in {"UPDATE", "SELECT note"}}

\* MySQL_stmt_prepare(statement).  After a failure the code closes the
\* MYSQL_STMT and then reads its error text: mysql_stmt_close of the NULL that
\* mysql_stmt_init returned stops the process, mysql_stmt_error of the freed
\* statement stops it or reads freed memory.
MySQL_stmt_prepare ==
    /\ stmt_mem.obj = "none"
    /\ stmt_ret.kind # "crash"
    /\ \/ \* mysql_stmt_init returned NULL
          /\ stmt_ret' = [StmtReturned("stmt_prepare", "crash") EXCEPT
                             !.calls = <<"mysql_stmt_init", "mysql_stmt_close">>]
          /\ UNCHANGED <<stmt_def, stmt_errno, stmt_mem>>
       \/ \E e \in PrepareErrors :
             /\ stmt_errno' = e
             /\ \/ stmt_ret' = [StmtReturned("stmt_prepare", "crash") EXCEPT
                                   !.server = e,
                                   !.calls = <<"mysql_stmt_init", "mysql_stmt_prepare",
                                               "mysql_stmt_close", "mysql_stmt_error">>]
                \/ \E msg \in FreedErrorTexts(e) :
                      stmt_ret' = StmtRaised("stmt_prepare",
                                     PyExc("MySQLInterfaceError", msg),
                                     <<"mysql_stmt_init", "mysql_stmt_prepare",
                                       "mysql_stmt_close", "mysql_stmt_error">>, e)
             /\ UNCHANGED <<stmt_def, stmt_mem>>
       \/ \E d \in LifeDefs :
             /\ stmt_def' = d
             /\ stmt_mem' = Prepared
             /\ stmt_errno' = 0
             /\ stmt_ret' = [StmtReturned("stmt_prepare", "stmt") EXCEPT
                                !.calls = <<"mysql_stmt_init", "mysql_stmt_prepare",
                                            "mysql_stmt_param_count">>]
    /\ UNCHANGED <<sessionVars, codecVars, lockVars, stmt_res, stmt_have_result_set,
                   stmt_column_count, stmt_fields, stmt_rows, stmt_bind>>

\* MySQLPrepStmt_close from MySQLPrepStmt_free_result on, for the call op.
\* self->stmt is never NULL in an object MySQL_stmt_prepare returned, and
\* stays as it is after mysql_stmt_close.  res is the error code of
\* mysql_stmt_close (0: none); mysql_stmt_error then reads the statement that
\* was just freed, which stops the process or yields a text (CloseRaised); in
\* MySQLPrepStmt_dealloc the returned value is dropped.  A second
\* mysql_stmt_close of the same MYSQL_STMT frees it twice: the process stops
\* or goes on.
CloseOutcome(op, res, after) ==
    /\ FreeResult
    /\ stmt_mem.closes < MaxCloses
    /\ stmt_mem' = [stmt_mem EXCEPT !.stmt = "closed", !.closes = @ + 1, !.obj = after]
    /\ \/ /\ res = 0 \/ op = "dealloc"
          /\ stmt_ret' = [StmtReturned(op, "None") EXCEPT
                             !.server = res,
                             !.calls = FreeResultCalls \o <<"mysql_stmt_close">>]
       \/ /\ stmt_mem.stmt = "closed" \/ res # 0
          /\ stmt_ret' = [StmtReturned(op, "crash") EXCEPT
                             !.server = res,
                             !.calls = FreeResultCalls \o <<"mysql_stmt_close">>]
    /\ stmt_errno' = res

\* MySQLPrepStmt_close when mysql_stmt_close failed with res and the text of
\* the freed statement could be read.
CloseRaised(res) ==
    /\ FreeResult
    /\ stmt_mem.closes < MaxCloses
    /\ stmt_mem' = [stmt_mem EXCEPT !.stmt = "closed", !.closes = @ + 1]
    /\ \E msg \in FreedErrorTexts(res) :
          stmt_ret' = StmtRaised("close", PyExc("MySQLInterfaceError", msg),
                                 FreeResultCalls \o <<"mysql_stmt_close",
                                                      "mysql_stmt_error">>, res)
    /\ stmt_errno' = res

\* MySQLPrepStmt_close
MySQLPrepStmt_close ==
    /\ stmt_ret.kind # "crash"
    /\ stmt_mem.obj = "live"
    /\ \/ CloseOutcome("close", 0, "live")
       \/ \E e \in CloseErrors : CloseOutcome("close", e, "live") \/ CloseRaised(e)
    /\ UNCHANGED <<sessionVars, codecVars, lockVars, stmt_def, stmt_column_count,
                   stmt_bind>>

\* MySQLPrepStmt_dealloc: MySQLPrepStmt_free_result, MySQLPrepStmt_close,
\* tp_free.  What MySQLPrepStmt_close returns is not looked at.
MySQLPrepStmt_dealloc ==
    /\ stmt_ret.kind # "crash"
    /\ stmt_mem.obj = "live"
    /\ \/ CloseOutcome("dealloc", 0, "freed")
       \/ \E e \in CloseErrors : CloseOutcome("dealloc", e, "freed")
    /\ UNCHANGED <<sessionVars, codecVars, lockVars, stmt_def, stmt_column_count,
                   stmt_bind>>

LifeNext ==
    \/ MySQL_stmt_prepare
    \/ MySQLPrepStmt_execute
    \/ MySQLPrepStmt_fetch_row
    \/ MySQLPrepStmt_fetch_fields
    \/ MySQLPrepStmt_free_result
    \/ MySQLPrepStmt_close
    \/ MySQLPrepStmt_dealloc

StmtNext ==
    \/ MySQLPrepStmt_execute
    \/ MySQLPrepStmt_fetch_row
    \/ MySQLPrepStmt_fetch_fields
    \/ MySQLPrepStmt_free_result

(***************************************************************************)
(* The interpreter lock.  A function of the extension is the sequence of   *)
(* its steps: Py_BEGIN_ALLOW_THREADS, Py_END_ALLOW_THREADS, a call of the  *)
(* client library, a step on Python objects, a conversion.                 *)
(***************************************************************************)
Threads == {1, 2}

BeginAllow == [kind |-> "Py_BEGIN_ALLOW_THREADS", call |-> ""]
EndAllow == [kind |-> "Py_END_ALLOW_THREADS", call |-> ""]
Native(call) == [kind |-> "native", call |-> call]
Host(call) == [kind |-> "host", call |-> call]
Conversion(call) == [kind |-> "codec", call |-> call]

\* The calls of the client library that wait for the server.
Blocking == {"mysql_real_connect", "mysql_real_query", "mysql_store_result",
             "mysql_fetch_row", "mysql_ping", "mysql_commit", "mysql_rollback",
             "mysql_autocommit", "mysql_reset_connection", "mysql_stmt_execute",
             "mysql_stmt_fetch", "mysql_stmt_fetch_column"}

LockedFunctions == {"MySQL_connect", "MySQL_query", "MySQL_fetch_row", "MySQL_ping",
                    "MySQL_commit", "MySQL_rollback", "MySQL_autocommit",
                    "MySQL_reset_connection", "MySQLPrepStmt_execute",
                    "MySQLPrepStmt_fetch_row"}

\* The steps of each function on its way to a successful return, in the
\* order of the source.
Steps_MySQL_connect ==
    <<Host("PyArg_ParseTupleAndKeywords"), BeginAllow, Native("mysql_init"),
    EndAllow, Native("mysql_options"), BeginAllow,
    Native("mysql_real_connect"), EndAllow, Host("Py_RETURN_NONE")>>

Steps_MySQL_query ==
    <<Host("PyArg_ParseTupleAndKeywords"), BeginAllow,
    Native("mysql_real_query"), EndAllow,
    Native("mysql_get_character_set_info"), BeginAllow,
    Native("mysql_store_result"), EndAllow, Host("Py_RETURN_TRUE")>>

Steps_MySQL_fetch_row ==
    <<BeginAllow, Native("mysql_fetch_row"), EndAllow, BeginAllow,
    Native("mysql_fetch_lengths"), EndAllow, Host("PyTuple_New"),
    Conversion("mytopy_date"), Host("PyTuple_SET_ITEM")>>

Steps_MySQL_ping ==
    <<Native("mysql_ping"), Host("Py_RETURN_TRUE")>>

Steps_MySQL_commit ==
    <<Native("mysql_commit"), Host("Py_RETURN_NONE")>>

Steps_MySQL_rollback ==
    <<BeginAllow, Native("mysql_rollback"), EndAllow, Host("Py_RETURN_NONE")>>

Steps_MySQL_autocommit ==
    <<Native("mysql_autocommit"), Host("Py_RETURN_NONE")>>

Steps_MySQL_reset_connection ==
    <<Native("mysql_reset_connection"), Host("Py_RETURN_TRUE")>>

Steps_MySQLPrepStmt_execute ==
    <<Host("PyTuple_GetItem"), Native("mysql_stmt_bind_param"), BeginAllow,
    Native("mysql_stmt_execute"), EndAllow, BeginAllow,
    Native("mysql_stmt_result_metadata"), EndAllow,
    Native("mysql_stmt_bind_result"), Host("Py_RETURN_TRUE")>>

Steps_MySQLPrepStmt_fetch_row ==
    <<Host("PyTuple_New"), BeginAllow, Native("mysql_stmt_fetch"), EndAllow,
    BeginAllow, Native("mysql_fetch_field"), EndAllow,
    Host("PyBytes_FromStringAndSize"), BeginAllow,
    Native("mysql_stmt_fetch_column"), EndAllow, Conversion("mytopy_date"),
    Host("PyTuple_SET_ITEM")>>

Program(op) ==
    CASE op = "MySQL_connect" -> Steps_MySQL_connect
      [] op = "MySQL_query" -> Steps_MySQL_query
      [] op = "MySQL_fetch_row" -> Steps_MySQL_fetch_row
      [] op = "MySQL_ping" -> Steps_MySQL_ping
      [] op = "MySQL_commit" -> Steps_MySQL_commit
      [] op = "MySQL_rollback" -> Steps_MySQL_rollback
      [] op = "MySQL_autocommit" -> Steps_MySQL_autocommit
      [] op = "MySQL_reset_connection" -> Steps_MySQL_reset_connection
      [] op = "MySQLPrepStmt_execute" -> Steps_MySQLPrepStmt_execute
      [] op = "MySQLPrepStmt_fetch_row" -> Steps_MySQLPrepStmt_fetch_row

IdleThread == [op |-> "idle", pc |-> 0]

\* Thread 1 runs the interpreter, thread 2 waits for the lock.
LockInit ==
    /\ gil = 1
    /\ thr = [t \in Threads |-> IdleThread]

\* The step thread t is about to take; Done(t): it is past the last one.
Running(t) == thr[t].op # "idle"
Done(t) == Running(t) /\ thr[t].pc > Len(Program(thr[t].op))
Step(t) == Program(thr[t].op)[thr[t].pc]
At(t, kinds) == Running(t) /\ ~Done(t) /\ Step(t).kind \in kinds
Advance(t) == thr' = [thr EXCEPT ![t].pc = @ + 1]

\* The interpreter, holding the lock, calls a function of the extension.
LockCall ==
    /\ \E t \in Threads, op \in LockedFunctions :
          /\ ~Running(t) /\ gil = t
          /\ thr' = [thr EXCEPT ![t] = [op |-> op, pc |-> 1]]
    /\ UNCHANGED <<gil, sessionVars, codecVars, stmtVars>>

\* Py_BEGIN_ALLOW_THREADS: PyEval_SaveThread gives the lock up.
Py_BEGIN_ALLOW_THREADS ==
    /\ \E t \in Threads :
          /\ At(t, {"Py_BEGIN_ALLOW_THREADS"}) /\ gil = t
          /\ gil' = 0
          /\ Advance(t)
    /\ UNCHANGED <<sessionVars, codecVars, stmtVars>>

\* Py_END_ALLOW_THREADS: PyEval_RestoreThread waits for the lock.
Py_END_ALLOW_THREADS ==
    /\ \E t \in Threads :
          /\ At(t, {"Py_END_ALLOW_THREADS"}) /\ gil = 0
          /\ gil' = t
          /\ Advance(t)
    /\ UNCHANGED <<sessionVars, codecVars, stmtVars>>

\* A call of the client library, made with the lock as it is.
NativeCall ==
    /\ \E t \in Threads : At(t, {"native"}) /\ Advance(t)
    /\ UNCHANGED <<gil, sessionVars, codecVars, stmtVars>>

\* A step on Python objects or a conversion, made with the lock as it is.
HostStep ==
    /\ \E t \in Threads : At(t, {"host", "codec"}) /\ Advance(t)
    /\ UNCHANGED <<gil, sessionVars, codecVars, stmtVars>>

\* The function returns to the interpreter.
LockReturn ==
    /\ \E t \in Threads : Done(t) /\ thr' = [thr EXCEPT ![t] = IdleThread]
    /\ UNCHANGED <<gil, sessionVars, codecVars, stmtVars>>

\* The interpreter hands the lock from one thread to another between two
\* calls.
SwitchThread ==
    /\ \E t \in Threads, u \in Threads :
          /\ t # u /\ gil = t /\ ~Running(t) /\ ~Running(u)
          /\ gil' = u
    /\ UNCHANGED <<thr, sessionVars, codecVars, stmtVars>>

\* A thread outside the extension takes the lock another thread gave up.
TakeLock ==
    /\ \E t \in Threads : gil = 0 /\ ~Running(t) /\ gil' = t
    /\ UNCHANGED <<thr, sessionVars, codecVars, stmtVars>>

LockNext ==
    \/ LockCall
    \/ Py_BEGIN_ALLOW_THREADS
    \/ Py_END_ALLOW_THREADS
    \/ NativeCall
    \/ HostStep
    \/ LockReturn
    \/ SwitchThread
    \/ TakeLock

(***************************************************************************)
(* The specifications.                                                     *)
(***************************************************************************)
Init == SessionInit /\ CodecInit /\ StmtIdle /\ LockInit

Next ==
    \/ MySQL_query
    \/ MySQL_fetch_row
    \/ MySQL_fetch_fields
    \/ MySQL_num_rows
    \/ MySQL_free_result
    \/ MySQL_consume_result
    \/ MySQL_next_result

Spec == Init /\ [][Next]_vars

SpecCodec == Init /\ [][CodecNext]_vars

InitStmt == SessionInit /\ CodecInit /\ StmtInit /\ LockInit

SpecStmt == InitStmt /\ [][StmtNext]_vars

\* Rows read from a text result or from a prepared statement: a run uses the
\* session, or it uses the statement it prepared.
SessionTurn ==
    /\ stmt_ret.op = "stmt_prepare"
    /\ stmt_def = [stmt |-> "UPDATE", args |-> <<>>, fallback |-> FALSE]
StmtTurn == ret.op = "init"
RowsNext ==
    \/ SessionTurn /\ Next
    \/ StmtTurn /\ StmtNext
\* The rows a statement returns do not depend on the values it is executed
\* with: the statements of these runs take none.
InitRows == InitStmt /\ stmt_def.args = <<>> /\ ~stmt_def.fallback
SpecRows == InitRows /\ [][RowsNext]_vars

SpecLock == Init /\ [][LockNext]_vars

\* A statement from MySQL_stmt_prepare to its deallocation.
SpecLife == Init /\ [][LifeNext]_vars

(***************************************************************************)
(* Properties of the session.                                              *)
(***************************************************************************)
\* C1: the descriptors the session hands out always describe the result
\* set of the most recent statement: whenever fetch_fields returns
\* descriptors, they are the columns of the result self->result points to.
CachedFieldsDescribeResult ==
    (ret.op = "fetch_fields" /\ ret.kind = "fields")
        => ret.desc.cols = Columns(res_obj[result].stmt)

\* C2: when fetch_row pulls a null row, it returns the end-of-rows value
\* with no error if no error is pending, raises the pending error of the
\* session otherwise, and returns a row in neither case.
NullPullOutcome ==
    (ret.op = "fetch_row" /\ ret.pull = "null")
        => /\ ret.kind # "row" /\ ret.row = <<>>
           /\ ret.pending = 0 => (ret.kind = "None" /\ ~ret.errIndicator)
           /\ ret.pending # 0 =>
                 (ret.kind = "error" /\ ret.exc = RaiseWithSession(ret.pending))

NullPullWithPendingError ==
    /\ ret.op = "fetch_row" /\ ret.pull = "null"
    /\ ret.pending = ServerLost.code
    /\ ret.kind = "error"

\* C3: after query returned success, a column count of zero leaves the
\* session with no result (result NULL, fields NULL, have_result_set false),
\* and a non-zero column count with a result leaves have_result_set true.
StatementOutcome ==
    (ret.op = "query" /\ ret.kind = "True")
        => /\ field_count = 0 =>
                 (result = 0 /\ fields.isnull /\ ~have_result_set)
           /\ (field_count # 0 /\ result # 0) => have_result_set

NoColumnsAfterResult ==
    /\ ret.op = "query" /\ ret.kind = "True"
    /\ field_count = 0
    /\ ret.hadResult
    /\ result = 0 /\ fields.isnull /\ ~have_result_set

\* C4: a fetch_row in which the conversion of a cell failed raises an error
\* and returns no row, whatever the type of the cell.
ConversionFailureGivesNoRow ==
    (ret.op = "fetch_row" /\ ret.failedCell)
        => (ret.kind = "error" /\ ret.row = <<>>)

\* C5 as stated: fetch_row, fetch_fields and num_rows all raise the usage
\* error when the session has no result.
NoResultIsUsageError ==
    (ret.op \in {"fetch_row", "fetch_fields", "num_rows"} /\ ~ret.hadResult)
        => (ret.kind = "error" /\ ret.exc.type = "MySQLInterfaceError")

\* C5: when the session has no result, fetch_fields and num_rows raise the
\* usage error (MySQLInterfaceError, errno -1, no SQLSTATE), and fetch_row
\* returns the end-of-rows value with no error.
NoResultOutcome ==
    /\ (ret.op \in {"fetch_fields", "num_rows"} /\ ~ret.hadResult)
          => /\ ret.kind = "error"
             /\ ret.exc.type = "MySQLInterfaceError"
             /\ ret.exc.errno = -1 /\ ret.exc.sqlstate = "None"
    /\ (ret.op = "fetch_row" /\ ~ret.hadResult)
          => (ret.kind = "None" /\ ~ret.errIndicator)

NumRowsWithoutResult ==
    /\ ret.op = "num_rows" /\ ~ret.hadResult
    /\ ret.kind = "error"
    /\ result = 0

(***************************************************************************)
(* Properties of the prepared statement.                                   *)
(***************************************************************************)
\* C6: every error a native call reports (here on a prepared statement:
\* bind, execute, fetch) reaches the caller as an exception that carries
\* the error code, the SQLSTATE and the message.
ServerErrorCarriesAll ==
    (stmt_ret.kind = "error" /\ stmt_ret.server # 0)
        => /\ {"errno", "sqlstate", "msg"} \subseteq stmt_ret.exc.has
           /\ stmt_ret.exc.errno = stmt_ret.server
           /\ stmt_ret.exc.sqlstate = SqlStateOf(stmt_ret.server)

(***************************************************************************)
(* Properties of the codec.                                                *)
(***************************************************************************)
\* The microseconds of the first six digits of a fraction.
FirstSixDigits(fr) == ScanDigits(SubSeq(fr, 1, 6), 1, 0).val

\* C7: a DATETIME text with more than six fractional digits converts to
\* the datetime whose microseconds are the first six digits.
LongFractionTruncated ==
    (cpc = "datetime_value" /\ Len(frac) > 6)
        => dout = PyValue("datetime", din.year, din.month, din.day, din.hour,
                          din.minute, din.second, FirstSixDigits(frac))

DateRangeOutcome ==
    (cpc = "date_value" /\ cls = "form")
        => dout = IF CalendarValid(din) THEN din ELSE PyNone

NonLeapFebruaryIsNone ==
    /\ cpc = "date_value" /\ cls = "form"
    /\ din = PyDate(1900, 2, 29)
    /\ dout = PyNone

\* C10: for every date d of the host, writing d, reading the text back and
\* writing the date read gives the text of d again.
DateRoundTrip ==
    /\ (cpc = "date_value" /\ cls = "host") => dout.kind = "date"
    /\ (cpc = "date_text2" /\ cls = "host") => text2 = text

RoundTripDone ==
    /\ cpc = "date_text2" /\ cls = "host"
    /\ din = PyDate(2024, 2, 29)
    /\ text2 = text

\* C11 as stated: a text that does not match the DATETIME or the TIME
\* grammar (the empty text, a text with no group of digits) raises the
\* malformed-data error from mytopy_datetime and from mytopy_time; it gives
\* neither a value nor None.
MalformedTextRaises ==
    (cpc \in {"datetime_value", "time_value"} /\ cls = "malformed")
        => dout.kind = "error"

\* The six-digit fraction of a TIME text: the first six digits, padded on
\* the right with zeros.
RECURSIVE RightPadded(_, _)
RightPadded(value, missing) ==
    IF missing > 0 THEN RightPadded(value * 10, missing - 1) ELSE value
SixDigitFraction(fr) ==
    IF Len(fr) >= 6 THEN FirstSixDigits(fr)
    ELSE IF fr = <<>> THEN 0
    ELSE RightPadded(ScanDigits(fr, 1, 0).val, 6 - Len(fr))

\* The timedelta of sign * (secs seconds and f microseconds), in the
\* normal form of datetime.timedelta: 0 <= seconds < 86400 and
\* 0 <= microseconds < 1000000.
SignedDuration(sign, secs, f) ==
    IF sign = 1 \/ f = 0
    THEN PyValue("timedelta", 0, 0, (sign * secs) \div 86400, 0, 0,
                 (sign * secs) % 86400, f)
    ELSE PyValue("timedelta", 0, 0, (0 - secs - 1) \div 86400, 0, 0,
                 (0 - secs - 1) % 86400, 1000000 - f)

\* C12: for every TIME text "[-]H:M:S[.f]", hours of 24 and more included,
\* mytopy_time returns the duration of sign * ((H*3600 + M*60 + S) seconds
\* and F microseconds), F the first six fractional digits right-padded with
\* zeros and sign -1 exactly when the text starts with '-'.
TimeTextDuration ==
    (cpc = "time_value" /\ cls = "time")
        => dout = SignedDuration(IF CharAt(text, 1) = "-" THEN -1 ELSE 1,
                                 din.hour * 3600 + din.minute * 60 + din.second,
                                 SixDigitFraction(frac))

NegativeLongTimeConverted ==
    /\ cpc = "time_value" /\ cls = "time"
    /\ text = <<"-", "8", "3", "8", ":", "5", "9", ":", "5", "9", ".", "5">>
    /\ dout = PyValue("timedelta", 0, 0, -35, 0, 0, 3600, 500000)

\* C13: mytopy_string returns the bytes of the cell unchanged when the
\* column has the binary flag, or the unicode mode is off, or the resolved
\* character set is "binary"; it decodes them with the resolved character
\* set exactly when none of the three holds.
DecodeColumnOutcome ==
    (cpc = "string_value")
        => dout = IF "BINARY" \in din.flags \/ ~din.use_unicode
                        \/ python_characterset_name(din.csname) = "binary"
                  THEN PyBytes(text)
                  ELSE PyUnicode_Decode(text, python_characterset_name(din.csname))

Utf8ColumnDecoded ==
    /\ cpc = "string_value"
    /\ din = [kind |-> "column", flags |-> {}, use_unicode |-> TRUE,
              csname |-> "utf8mb4"]
    /\ text = <<"a", "C3", "A9">>
    /\ dout = PyStr(<<"a", "U+00E9">>)

\* C14: a cell of a SET column becomes, in MySQL_fetch_row and in
\* MySQLPrepStmt_fetch_row and in both unicode modes, the empty set when its
\* bytes are empty and the set of its comma-separated tokens otherwise, and
\* the two rows hold the same set.
SetCellIsTokenSet ==
    (cpc = "set_value")
        => /\ dout.text_cell.kind = "set" /\ dout.text_cell.pending = "none"
           /\ dout.stmt_cell.kind = "set" /\ dout.stmt_cell.pending = "none"
           /\ text = <<>> => dout.text_cell.data = {}
           /\ text # <<>> => Cardinality(dout.text_cell.data)
                                = Len(Pieces(text, ",", 1, <<>>))
           /\ dout.stmt_cell.data = dout.text_cell.data

\* C15: a null cell becomes None whatever the column is: in MySQL_fetch_row
\* for every type and every flag, raw mode on or off, and in
\* MySQLPrepStmt_fetch_row when the null indicator of the column is set; no
\* object is built from the cell, by a codec or as raw bytes.
NullCellIsNone ==
    /\ (ret.op = "fetch_row" /\ ret.pull = "row")
          => \A i \in 1..Len(ret.cells) :
                ret.cells[i] = "NULL"
                    => /\ i \notin ret.built
                       /\ ret.kind = "row" => ret.row[i] = "None"
    /\ (stmt_ret.op = "fetch_row" /\ stmt_ret.cells # <<>>)
          => \A i \in 1..Len(stmt_ret.cells) :
                stmt_ret.cells[i] = "NULL"
                    => /\ i \notin stmt_ret.built
                       /\ \A k \in 1..Len(stmt_ret.fetches) : stmt_ret.fetches[k].col # i
                       /\ stmt_ret.kind = "row" => stmt_ret.row[i] = "None"

RawRowWithNullCell ==
    /\ ret.op = "fetch_row" /\ ret.kind = "row"
    /\ self_raw
    /\ ret.cells = <<"NULL", "good">>
    /\ ret.row = <<"None", "bytearray">>

\* C16: MySQLPrepStmt_execute gives the bind of every position i, and no
\* other slot, the type tag of the Python type of value i (None NULL, int
\* LONGLONG, float FLOAT, str, bytes and bytearray STRING, datetime DATETIME,
\* date DATE, time and timedelta TIME, Decimal DECIMAL at any position); a
\* value of another type, without the string fallback, raises the error
\* that names the type and the statement is not executed.
BindTagByPosition ==
    (stmt_ret.op = "execute")
        => IF \E i \in 1..Len(stmt_def.args) :
                 BindTypeOf(stmt_def.args[i], stmt_def.fallback) = "unsupported"
           THEN /\ stmt_ret.kind = "error"
                /\ \E i \in 1..Len(stmt_def.args) :
                      stmt_ret.exc = PyExc("MySQLInterfaceError",
                                           "Python type " \o stmt_def.args[i]
                                               \o " cannot be converted")
                /\ stmt_ret.calls = <<>>
           ELSE /\ ~stmt_ret.oob
                /\ \A i \in 1..Len(stmt_def.args) :
                      stmt_ret.binds[i] = BindTypeOf(stmt_def.args[i], stmt_def.fallback)

\* The types MySQL_convert_to_mysql converts without the string fallback.
ConvertedKinds == {"None", "int", "float", "str", "bytes", "bytearray", "datetime",
                   "date", "time", "timedelta", "Decimal"}

\* The fragment C17 gives for a value.
ExpectedFragment(value) ==
    CASE value.kind = "None" -> <<"N", "U", "L", "L">>
      [] value.kind \in {"int", "float", "Decimal"} -> value.text
      [] value.kind \in {"str", "bytes", "bytearray"} ->
            <<"'">> \o EscapeFrom(value.text, 1) \o <<"'">>
      [] value.kind = "datetime" -> <<"'">> \o pytomy_datetime(value.v) \o <<"'">>
      [] value.kind = "date" -> <<"'">> \o pytomy_date(value.v) \o <<"'">>
      [] value.kind = "time" -> <<"'">> \o pytomy_time(value.v) \o <<"'">>
      [] value.kind = "timedelta" -> <<"'">> \o pytomy_timedelta(value.v) \o <<"'">>

OnlyHeldResultUnfreed ==
    /\ \A i \in DOMAIN res_obj : i = result
    /\ Cardinality(DOMAIN res_obj) <= 1

(***************************************************************************)
(* Properties of the two fetches of a prepared row.                        *)
(***************************************************************************)
\* The column types with a buffer of fixed size in the bind.
FixedSizeNumeric == {"TINY", "SHORT", "INT24", "LONG", "LONGLONG", "YEAR",
                     "FLOAT", "DOUBLE"}

\* The calls of mysql_stmt_fetch_column for column i among fetches.
FetchesOf(fetches, i) == {k \in 1..Len(fetches) : fetches[k].col = i}

\* C19: in every MySQLPrepStmt_fetch_row that returns a row, each column
\* that is not null and not of a fixed-size numeric type is bound again to a
\* buffer of the length the server recorded for it at mysql_stmt_fetch and is
\* pulled by exactly one mysql_stmt_fetch_column, after mysql_stmt_fetch and
\* before the row is returned; a fixed-size numeric column and a null column
\* get no mysql_stmt_fetch_column.
VariableColumnsFetchedOnce ==
    (stmt_ret.op = "fetch_row" /\ stmt_ret.kind = "row")
        => /\ stmt_ret.calls[1] = "mysql_stmt_fetch"
           /\ Len(stmt_ret.calls) = 1 + Len(stmt_ret.fetches)
           /\ \A k \in 2..Len(stmt_ret.calls) :
                 stmt_ret.calls[k] = "mysql_stmt_fetch_column"
           /\ \A i \in 1..Len(stmt_ret.cells) :
                 IF stmt_ret.cells[i] # "NULL"
                    /\ Columns(stmt_def.stmt)[i].type \notin FixedSizeNumeric
                 THEN /\ Cardinality(FetchesOf(stmt_ret.fetches, i)) = 1
                      /\ \A k \in FetchesOf(stmt_ret.fetches, i) :
                            stmt_ret.fetches[k].buffer_length =
                                WireLength(Columns(stmt_def.stmt)[i], stmt_ret.cells[i])
                 ELSE FetchesOf(stmt_ret.fetches, i) = {}

RowWithNullAndFetchedColumn ==
    /\ stmt_ret.op = "fetch_row" /\ stmt_ret.kind = "row"
    /\ stmt_def.stmt = "SELECT price, name"
    /\ stmt_ret.cells = <<"NULL", "invalid">>
    /\ stmt_ret.fetches = <<[col |-> 2, buffer_length |-> 1]>>
    /\ stmt_ret.calls = <<"mysql_stmt_fetch", "mysql_stmt_fetch_column">>

\* C20: whatever the MySQLPrepStmt_fetch_row before ended with (a row, an
\* error in the middle of a row, the end of the rows), when mysql_stmt_fetch
\* is called the bind of every column that is not of a fixed-size numeric
\* type has a null buffer and a buffer length of zero, and the bind of every
\* integer, FLOAT and DOUBLE column points at the small_buffer of its own
\* column: no bind takes the buffer of an earlier row into mysql_stmt_fetch.
BindsResetAtFetch ==
    (stmt_ret.op = "fetch_row" /\ stmt_ret.calls # <<>>)
        => /\ stmt_ret.calls[1] = "mysql_stmt_fetch"
           /\ Len(stmt_ret.at_fetch) = Len(Columns(stmt_def.stmt))
           /\ \A i \in 1..Len(stmt_ret.at_fetch) :
                 /\ stmt_ret.at_fetch[i].buffer[1] # "obj"
                 /\ IF Columns(stmt_def.stmt)[i].type \in FixedSizeNumeric
                    THEN /\ stmt_ret.at_fetch[i].buffer[1]
                                \in {"small_buffer.l", "small_buffer.f", "small_buffer.d"}
                         /\ stmt_ret.at_fetch[i].buffer[2] = i
                    ELSE stmt_ret.at_fetch[i] =
                            [buffer |-> <<"NULL", 0>>, buffer_length |-> 0]

\* A fetch that began with the bind of column 2 pointing into the object
\* built for the DATE of the row before.
FetchAfterReboundRow ==
    /\ stmt_ret.op = "fetch_row" /\ stmt_ret.calls # <<>>
    /\ stmt_def.stmt = "SELECT id, born"
    /\ stmt_ret.on_entry[2] = [buffer |-> <<"obj", 2>>, buffer_length |-> 10]
    /\ stmt_ret.at_fetch[2] = [buffer |-> <<"NULL", 0>>, buffer_length |-> 0]
    /\ stmt_ret.at_fetch[1] = [buffer |-> <<"small_buffer.l", 1>>, buffer_length |-> 8]

(***************************************************************************)
(* Properties of the memory of a prepared statement.                       *)
(***************************************************************************)
\* C21: on every way out of MySQLPrepStmt_execute (success, a value of a
\* type no branch takes, mysql_stmt_bind_param failing, mysql_stmt_execute
\* failing) every object made for the call only (the text of a Decimal at
\* any position, the bytes copy of a bytearray, the text of the string
\* fallback) is released once, and no value of the caller (str, bytes) is
\* released.
CallObjectsReleased ==
    (stmt_ret.op = "execute" /\ stmt_ret.kind # "crash")
        => \A i \in 1..Len(stmt_ret.str_value) :
              /\ stmt_ret.str_value[i] = "call" => i \in stmt_ret.decref
              /\ stmt_ret.str_value[i] = "caller" => i \notin stmt_ret.decref

(***************************************************************************)
(* Properties of the interpreter lock.                                     *)
(***************************************************************************)
\* C22: every call of the client library that waits for the server
\* (connect, query, row fetch, ping, commit, rollback, autocommit, reset
\* connection, prepared execute, prepared fetch, fetch of one column) is made
\* by a thread that does not hold the interpreter lock, and every step on
\* Python objects and every conversion by a thread that holds it.
BlockingCallsReleaseLock ==
    \A t \in Threads :
        /\ (At(t, {"native"}) /\ Step(t).call \in Blocking) => gil # t
        /\ At(t, {"host", "codec"}) => gil = t

(***************************************************************************)
(* Properties of the life of a prepared statement.                         *)
(***************************************************************************)
\* C23: over prepare, execute with a result set, fetch_row, free_result and
\* close, each execute has released the MYSQL_BIND array, the column_info
\* array and the metadata MYSQL_RES of the execute before it when it
\* allocates its own (at most one of each is allocated), and after close
\* none of them is allocated.
PreviousBuffersReleased ==
    /\ stmt_mem.res <= 1 /\ stmt_mem.bind <= 1 /\ stmt_mem.cols <= 1
    /\ stmt_mem.stmt = "closed"
          => (stmt_mem.res = 0 /\ stmt_mem.bind = 0 /\ stmt_mem.cols = 0)

\* The positions of a native call in the calls of the last operation.
CallsAt(name) == {i \in 1..Len(stmt_ret.calls) : stmt_ret.calls[i] = name}

\* C24: when MySQL_stmt_prepare fails after mysql_stmt_init, the error text
\* is read from the MYSQL_STMT before mysql_stmt_close frees it, and when
\* mysql_stmt_bind_result fails the statement object keeps no pointer to
\* the metadata and the arrays that were freed.
FailureFreesThenForgets ==
    /\ stmt_ret.op = "stmt_prepare"
          => \A c \in CallsAt("mysql_stmt_close") :
                \A e \in CallsAt("mysql_stmt_error") : e < c
    /\ stmt_res # "freed"

\* C25: over calls of close followed by the deallocation of the object,
\* mysql_stmt_close is called at most once on the MYSQL_STMT.
HandleClosedAtMostOnce == stmt_mem.closes <= 1

(***************************************************************************)
(* Properties of the result flag of the session.                           *)
(***************************************************************************)
\* C26: in every state of the session, after any sequence of query
\* (succeeding, or failing in mysql_real_query or in mysql_store_result /
\* mysql_use_result), next_result, free_result and consume_result,
\* have_result_set is true exactly when self->result is a MYSQL_RES that is
\* not NULL, of a result with columns.
ResultFlagMatchesHandle ==
    have_result_set <=> (/\ result # 0
                         /\ result \in DOMAIN res_obj
                         /\ Len(Columns(res_obj[result].stmt)) # 0)

(***************************************************************************)
(* Properties of the quoted fragments.                                     *)
(***************************************************************************)
\* No quote and no backslash stands in s from i on without a backslash
\* before it that escapes it.
RECURSIVE WellEscaped(_, _)
WellEscaped(s, i) ==
    IF i > Len(s) THEN TRUE
    ELSE IF s[i] = "\\" THEN i + 1 <= Len(s) /\ WellEscaped(s, i + 2)
    ELSE s[i] # "'" /\ WellEscaped(s, i + 1)

\* The types whose fragment MySQL_convert_to_mysql leaves without quotes.
UnquotedKinds == {"None", "int", "float", "Decimal"}

\* C27: every fragment MySQL_convert_to_mysql puts in single quotes, with
\* the string fallback or without, has between the quotes the output of
\* MySQL_escape_string or the text of a temporal value: no quote and no
\* backslash of the value stands there without an escaping backslash.
QuotedFragmentsEscaped ==
    (cpc = "fragments" /\ dout.kind = "tuple")
        => \A i \in 1..Len(din.args) :
              din.args[i].kind \notin UnquotedKinds
                 => /\ Len(dout.data[i]) >= 2
                    /\ dout.data[i][1] = "'"
                    /\ dout.data[i][Len(dout.data[i])] = "'"
                    /\ WellEscaped(SubSeq(dout.data[i], 2, Len(dout.data[i]) - 1), 1)

(***************************************************************************)
(* Properties of the conversion of durations.                              *)
(***************************************************************************)
\* The text of a duration: '-' when it is negative, the hours, minutes and
\* seconds of its size in two digits or more, and the microseconds of its
\* size in six digits when they are not 0.
DurationText(d) ==
    (IF d.day < 0 THEN <<"-">> ELSE <<>>)
        \o TimeOfDayText(DeltaTotalSecs(d) \div 3600, (DeltaTotalSecs(d) % 3600) \div 60,
                         (DeltaTotalSecs(d) % 3600) % 60, DeltaMicroSecs(d))

\* C28: for every timedelta within the range of a TIME, of either sign and
\* with or without microseconds, pytomy_timedelta writes the whole text
\* [-]HH:MM:SS[.ffffff] and mytopy_time of that text is the timedelta.
DurationRoundTrip ==
    (cpc = "time_value" /\ cls = "delta")
        => /\ text = DurationText(din)
           /\ dout = din

(***************************************************************************)
(* Properties of the fractional seconds.                                   *)
(***************************************************************************)
\* The microseconds k fractional digits stand for, 1 <= k <= 6: the number
\* they write times 10^(6-k).
FractionMicroseconds(fr) == PadFraction(DigitRun(fr, Len(fr) + 1, 1, 0).value, 6 - Len(fr))

\* The microseconds mytopy_time gives for the TIME text with the fraction fr.
TimeMicroseconds(fr) ==
    mytopy_time(WireTimeText(<<>>, 0, 0, 0, fr), Len(WireTimeText(<<>>, 0, 0, 0, fr))).usec

\* C29: for a DATETIME text with a fraction of k digits, 1 <= k <= 6, the
\* microseconds of mytopy_datetime are the digits times 10^(6-k) (".5" gives
\* 500000), and they are the microseconds mytopy_time gives for the same
\* fraction.
ShortFractionScaled ==
    (cpc = "datetime_value" /\ cls = "datetime" /\ Len(frac) \in 1..6)
        => /\ dout.kind = "datetime"
           /\ dout.usec = FractionMicroseconds(frac)
           /\ dout.usec = TimeMicroseconds(frac)

(***************************************************************************)
(* Properties of the scan of the groups of digits.                         *)
(***************************************************************************)
\* The scan of mytopy_time over text: after the sign, if there is one.
TimeScan(data) ==
    TimeGroups(data, Len(data) + 1, IF CharAt(data, 1) = "-" THEN 2 ELSE 1, 0,
               <<0, 0, 0, 0>>)

\* C30: for every text, the scan of mytopy_datetime writes parts[0] to
\* parts[6] of its array of 7 and nothing else, also when the text has 8
\* groups of digits or more, and the scan of mytopy_time writes parts[0] to
\* parts[3] of its array of 4.
GroupWritesInBounds ==
    /\ cpc = "datetime_value"
          => /\ DatetimeScan(text, Len(text)).last <= 6
             /\ dout # PyUndefined
    /\ cpc = "time_value" => TimeScan(text).last <= 3

====
